---- MODULE Spec2Model ----
(***************************************************************************)
(* State-machine model of the agentflux design pipeline.                   *)
(*                                                                         *)
(*   Part I   VisionAnalyzer (src/vision_analyzer.py): response parsing,   *)
(*            chunk merging, session chunk history, failure recovery and   *)
(*            the single-stage / custom / multi-stage analysis modes.      *)
(*   Part II  ABTestGenerator (src/ab_test_generator.py): the per-pattern  *)
(*            variation pipeline with quality check and regeneration.      *)
(*   Part III VariationStylizer (src/stylizer.py) and the size selection   *)
(*            of the image step.                                           *)
(*   Part IV  The programs main.py and api.py: configuration check,        *)
(*            construction of the engine and the website analysis.         *)
(*   Part V   ComponentSegmenter (src/component_segmenter.py): analysis of  *)
(*            the scroll segments, code generation and the component map.  *)
(*   Part VI  The analysis records of the web application (src/api.py).    *)
(*                                                                         *)
(* A model response is a sequence of tokens: the fence openers and closers *)
(* of a markdown code block, braces, key/value members of a JSON object,   *)
(* a JSON array literal and prose.  Parsing is computed on the tokens the  *)
(* way the code computes it on the characters (find / rfind / json.loads). *)
(***************************************************************************)
EXTENDS Integers, Sequences, FiniteSets, TLC

VARIABLES
    \* ---- VisionAnalyzer instance attributes
    accumulated_chunks,        \* self._accumulated_chunks (a list of chunks)
    has_accumulated_chunks,    \* hasattr(self, '_accumulated_chunks')
    last_successful_merge,     \* self._last_successful_merge
    has_last_successful_merge, \* hasattr(self, '_last_successful_merge')
    merge_image,               \* the image whose analysis stored that merge
    \* ---- the analyze_screenshot call in progress
    base64_image,              \* the screenshot it is given
    engine_at_call,            \* the instance attributes when it was called
    stage,                     \* where the call is suspended
    last_resolved,             \* the focused call gather saw resolve last
    focused_status,            \* per focused category: pending / ok / failed
    focused_analyses,          \* results of the focused pass gathered so far
    comprehensive_analysis,    \* result of the synthesis pass
    ret,                       \* outcome of the last analyze_screenshot call
    \* ---- history of the calls of _merge_analysis_chunks
    merge_calls,
    \* ---- ABTestGenerator.generate_ab_variations
    screenshot_exists,         \* an original screenshot file is on disk
    selected_pattern,          \* "1".."4" or "all"
    run,                       \* idle / running / returned / raised
    tasks,                     \* the pattern pipelines still to be awaited
    variations,                \* the dict of Variation records
    ab_test_package,           \* the value generate_ab_variations returns
    \* ---- the locals of _create_variation, per pattern
    pc,                        \* the call the pipeline is suspended at
    modified_components,
    variation_react_code,
    image_prompt,
    enhanced_prompt,           \* the prompt _regenerate_with_feedback builds
    variation_image,
    quality_check,
    improved_image,
    final_image,
    \* ---- per pattern: the image as first generated, the external calls made
    first_generated,
    calls,
    \* ---- VariationStylizer.stylize_all_variations
    stylizing,                 \* idle / running / returned
    styled_package,            \* its argument ab_test_package
    output_dir,
    selected_styles,
    variation_queue,           \* the variations still to stylize, current first
    stylization_results,       \* per variation key, its stylized images
    disk,                      \* the output files: path to content
    \* ---- the locals of _apply_styles_to_image
    batch_pc,                  \* the await it is suspended at: gather / sleep
    batch_start,               \* i of the loop over the batches
    job,                       \* per style: waiting / running / done
    batch_results,             \* per style: what its task returned or raised
    stylized_results,
    \* ---- the sizing of the image step of ABTestGenerator
    original_size,             \* (original_width, original_height)
    optimal_size,              \* the size asked of the image model
    regeneration_size,         \* the size the regeneration asks of it
    \* ---- the programs main.py and api.py
    program,                   \* the script the process runs
    OPENAI_API_KEY,            \* Config.OPENAI_API_KEY, "" when it is not set
    analyzer,                  \* the VisionAnalyzer the program constructs
    main_pc,                   \* where the program is
    include_mobile,            \* the arguments of the website analysis
    multi_stage,
    captures,                  \* calls of the screenshot service
    \* ---- ComponentSegmenter.segment_and_analyze
    segmenting,                \* idle / analyze / generate / returned / raised
    page_url,                  \* its argument url
    vision_analyzer_merge,     \* _last_successful_merge of its analyzer
    scroll_segments,           \* the captured segments
    segment_task,              \* per segment, its task in gather
    component_analyses,        \* segment id to analysis
    react_queue,               \* the segment ids the code loop has left
    react_components,          \* segment id to generated code
    component_map,
    \* ---- the analysis records of api.py
    analysis_storage,          \* analysis id to record
    background,                \* per analysis id, where run_analysis is
    results_files,             \* the analysis ids with a file in results/
    download                   \* the last answer of the download route

vaVars == <<accumulated_chunks, has_accumulated_chunks, last_successful_merge,
            has_last_successful_merge, merge_image, base64_image,
            engine_at_call,
            stage, last_resolved, focused_status, focused_analyses,
            comprehensive_analysis, ret, merge_calls>>

runVars == <<selected_pattern, run, tasks, variations, ab_test_package>>

abVars == <<screenshot_exists, runVars, pc, modified_components,
            variation_react_code, image_prompt, enhanced_prompt,
            variation_image, quality_check, improved_image, final_image,
            first_generated, calls>>

stVars == <<stylizing, styled_package, output_dir, selected_styles, variation_queue,
            stylization_results, disk, batch_pc, batch_start, job,
            batch_results, stylized_results>>

szVars == <<original_size, optimal_size, regeneration_size>>

mainVars == <<program, OPENAI_API_KEY, analyzer, main_pc, include_mobile,
              multi_stage, captures>>

segVars == <<segmenting, page_url, vision_analyzer_merge, scroll_segments, segment_task, component_analyses,
             react_queue, react_components, component_map>>

apiVars == <<analysis_storage, background, results_files, download>>

vars == <<vaVars, abVars, stVars, szVars, mainVars, segVars, apiVars>>

-----------------------------------------------------------------------------
(* Bounds *)

\* segments (prose, fenced block, bare object) of one model response
MaxSegs == 2
\* length of the chunk history of one engine instance
MaxHistory == 6
\* style applications of one stylizer call, and presets of the catalog it
\* draws on
MaxStyles == 7
\* width and height of a screenshot, in pixels, besides the default ones
MaxDim == 12
\* website analyses one process of the web application runs
MaxRequests == 1
\* analysis records one process of the web application creates
MaxAnalyses == 2
\* downloads of one stylizer call that give an empty payload
MaxEmpty == 1

-----------------------------------------------------------------------------
(* Tokens of a response text *)

Tk(t) == [t |-> t, k |-> "", v |-> ""]
Kv(k, v) == [t |-> "kv", k |-> k, v |-> v]

\* FENCE_JSON is three backticks followed by json, FENCE is three backticks
FENCE_JSON == Tk("fence_json")
FENCE == Tk("fence")
LBRACE == Tk("{")
RBRACE == Tk("}")
ARRAY == Tk("[]")
PROSE == Tk("prose")

\* JSON values of an object member: two distinct objects and a string
DictVals == {"d1", "d2"}
ScalarVal == "s"

\* the bodies (member lists) of the JSON objects the model may emit
Bodies ==
    { <<Kv("typography", "d1"), Kv("primary", "d1"), Kv("other", "d1")>>,
      <<Kv("typography", "d2"), Kv("formElements", ScalarVal)>>,
      <<Kv("typography", ScalarVal)>> }

Object(b) == <<LBRACE>> \o b \o <<RBRACE>>

Segments ==
    { <<PROSE>>,
      <<FENCE_JSON, PROSE, FENCE>>,
      <<FENCE_JSON, ARRAY, FENCE>> }
    \cup { <<FENCE_JSON>> \o Object(b) \o <<FENCE>> : b \in Bodies }
    \cup { <<FENCE_JSON>> \o Object(<<Kv("typography", "d2")>>) }
    \cup { Object(b) : b \in { <<>>, <<Kv("typography", "d1")>> } }

RECURSIVE Concat(_)
Concat(ss) == IF ss = <<>> THEN <<>> ELSE Head(ss) \o Concat(Tail(ss))

\* every response text of at most MaxSegs segments
AllResponses ==
    UNION { { Concat(ss) : ss \in [1..n -> Segments] } : n \in 0..MaxSegs }

\* the responses used where several calls make up one analysis
StageResponses ==
    { <<FENCE_JSON>> \o Object(<<Kv("typography", "d1")>>) \o <<FENCE>>,
      <<FENCE_JSON>> \o Object(<<Kv("primary", "d1"), Kv("other", "d1")>>) \o <<FENCE>>,
      <<PROSE>> \o Object(<<Kv("typography", "d1")>>),
      <<PROSE>> }

-----------------------------------------------------------------------------
(* design_schema.DesignSchema.schema_template *)

SchemaKeys ==
    { "Typography", "Color & Contrast", "Layout & Grid System",
      "Spacing & Sizing Tokens", "Imagery", "Illustration & Iconography",
      "Logo Usage", "Buttons & Calls-to-Action", "Form & Input Styling",
      "Navigation & Header", "Cards / Panels / Containers",
      "Shadows & Elevation", "Borders & Dividers", "Motion & Animation",
      "Micro-Interactions", "Media Blocks (Video / Audio / 3-D)",
      "Backgrounds", "Dark-Mode / High-Contrast Variants",
      "Accessibility Visuals", "Data-Viz & Infographics",
      "Cursors & Pointer States", "Tone & Mood Descriptors",
      "Reusable Brand Motifs", "Favicons & Social Preview Assets" }

-----------------------------------------------------------------------------
(* json.loads and str.find on tokens *)

\* str.find(sub, start): the first index >= from of a token of S, 0 if none
Find(text, S, from) ==
    IF \E i \in from..Len(text) : text[i] \in S
    THEN CHOOSE i \in from..Len(text) :
            /\ text[i] \in S
            /\ \A j \in from..(i - 1) : text[j] \notin S
    ELSE 0

\* str.rfind(sub): the last index of a token of S, 0 if none
RFind(text, S) ==
    IF \E i \in 1..Len(text) : text[i] \in S
    THEN CHOOSE i \in 1..Len(text) :
            /\ text[i] \in S
            /\ \A j \in (i + 1)..Len(text) : text[j] \notin S
    ELSE 0

IsObjectText(toks) ==
    /\ Len(toks) >= 2
    /\ toks[1] = LBRACE
    /\ toks[Len(toks)] = RBRACE
    /\ \A i \in 2..(Len(toks) - 1) : toks[i].t = "kv"

\* the dict of an object text; a repeated key keeps its last value
ObjectOf(toks) ==
    LET members == 2..(Len(toks) - 1)
        keys == { toks[i].k : i \in members }
        lastOf(k) == CHOOSE i \in members :
                        /\ toks[i].k = k
                        /\ \A j \in members : j > i => toks[j].k # k
    IN [k \in keys |-> toks[lastOf(k)].v]

\* json.loads: ok = FALSE is JSONDecodeError
JsonLoads(toks) ==
    IF IsObjectText(toks)
    THEN [ok |-> TRUE, is_dict |-> TRUE, value |-> ObjectOf(toks)]
    ELSE IF toks = <<ARRAY>>
    THEN [ok |-> TRUE, is_dict |-> FALSE, value |-> <<>>]
    ELSE [ok |-> FALSE, is_dict |-> FALSE, value |-> <<>>]

-----------------------------------------------------------------------------
(* VisionAnalyzer._map_* *)

Val(kind, a, b) == [kind |-> kind, a |-> a, b |-> b]
Ok(v) == [ok |-> TRUE, val |-> v]
Raise == [ok |-> FALSE, val |-> Val("", "", "")]

Get(d, k, default) == IF k \in DOMAIN d THEN d[k] ELSE default

\* typography_data.get(...) raises AttributeError unless the value is a dict
MapTypography(typography_data) ==
    IF typography_data \in DictVals
    THEN Ok(Val("typography", typography_data, ""))
    ELSE Raise

\* colors = color_data.get('colorPalette', color_data); colors.get(...)
MapColors(color_data) ==
    IF "colorPalette" \in DOMAIN color_data
    THEN IF color_data["colorPalette"] \in DictVals
         THEN Ok(Val("colors", color_data["colorPalette"],
                     Get(color_data, "gradients", "[]")))
         ELSE Raise
    ELSE Ok(Val("colors", Get(color_data, "primary", "{}"),
                Get(color_data, "gradients", "[]")))

\* layout_data.get('gridSystem', {}).get(...), .get('spacingPatterns', {}).get(...)
MapLayout(layout_data) ==
    IF /\ Get(layout_data, "containerWidths", "d1") \in DictVals
       /\ Get(layout_data, "gridSystem", "d1") \in DictVals
       /\ Get(layout_data, "spacingPatterns", "d1") \in DictVals
    THEN Ok(Val("layout", Get(layout_data, "gridSystem", "{}"),
                Get(layout_data, "spacingPatterns", "{}")))
    ELSE Raise

\* button_data.get('primaryButton', {})
MapButtons(button_data) ==
    IF button_data \in DictVals
    THEN Ok(Val("buttons", button_data, ""))
    ELSE Raise

Placeholder(key) == Val("Analysis not available for category", key, "")

-----------------------------------------------------------------------------
(* VisionAnalyzer._merge_analysis_chunks *)

Put(m, k, v) == [x \in (DOMAIN m) \cup {k} |-> IF x = k THEN v ELSE m[x]]

\* the assignments one chunk makes to merged_analysis, as (key, mapped value)
ChunkAssignments(chunk) ==
    LET has(k) == k \in DOMAIN chunk IN
    (IF has("typography")
     THEN <<[key |-> "Typography", r |-> MapTypography(chunk["typography"])]>>
     ELSE <<>>)
    \o (IF has("colorPalette") \/ has("primary")
        THEN <<[key |-> "Color & Contrast", r |-> MapColors(chunk)]>>
        ELSE <<>>)
    \o (IF has("gridSystem") \/ has("spacingPatterns")
        THEN <<[key |-> "Layout & Grid System", r |-> MapLayout(chunk)]>>
        ELSE <<>>)
    \o (IF has("buttonStyles")
        THEN <<[key |-> "Buttons & Calls-to-Action",
                r |-> MapButtons(chunk["buttonStyles"])]>>
        ELSE <<>>)
    \o (IF has("formElements")
        THEN <<[key |-> "Form & Input Styling",
                r |-> Ok(Val("raw", chunk["formElements"], ""))]>>
        ELSE <<>>)
    \o (IF has("cardDesigns")
        THEN <<[key |-> "Cards / Panels / Containers",
                r |-> Ok(Val("raw", chunk["cardDesigns"], ""))]>>
        ELSE <<>>)

RECURSIVE ApplyAssignments(_, _)
ApplyAssignments(m, as) ==
    IF as = <<>> THEN [raised |-> FALSE, m |-> m]
    ELSE IF ~Head(as).r.ok THEN [raised |-> TRUE, m |-> m]
    ELSE ApplyAssignments(Put(m, Head(as).key, Head(as).r.val), Tail(as))

\* the loop "for chunk in chunks" (lines 375-398)
RECURSIVE MapChunks(_, _)
MapChunks(m, chunks) ==
    IF chunks = <<>> THEN [raised |-> FALSE, m |-> m]
    ELSE LET one == ApplyAssignments(m, ChunkAssignments(Head(chunks)))
         IN IF one.raised THEN one ELSE MapChunks(one.m, Tail(chunks))

\* a merge that returns without filling the categories no chunk populated
FillMissing_skipped(m) == m

\* the loop "for key in schema_keys" (lines 401-404)
FillMissing(m) ==
    [k \in (DOMAIN m) \cup SchemaKeys |->
        IF k \in DOMAIN m THEN m[k] ELSE Placeholder(k)]

\* a merge that maps the chunks of the current response only
ChunksToMerge_new_only(acc, has_acc, new) == new

\* a merge that maps the chunks of the current response before the history
ChunksToMerge_new_first(acc, has_acc, new) ==
    IF has_acc THEN new \o acc ELSE new

\* the list the loop runs over (lines 366-369)
ChunksToMerge(acc, has_acc, new) == IF has_acc THEN acc \o new ELSE new

\* the history after line 372
Accumulate(acc, has_acc, new) ==
    (IF has_acc THEN acc ELSE <<>>) \o ChunksToMerge(acc, has_acc, new)

\* what the call leaves: the merged result (or the exception of a _map_*
\* helper) and the history; mapped is the outcome of the mapping loop
MergeOutcome(mapped, chunks, accumulated) ==
    [raised |-> mapped.raised,
     merged |-> IF mapped.raised THEN <<>> ELSE FillMissing(mapped.m),
     chunks |-> chunks,
     accumulated |-> accumulated]

MergeAnalysisChunks(acc, has_acc, new) ==
    MergeOutcome(MapChunks(<<>>, ChunksToMerge(acc, has_acc, new)),
                 ChunksToMerge(acc, has_acc, new),
                 Accumulate(acc, has_acc, new))

-----------------------------------------------------------------------------
(* VisionAnalyzer._parse_response *)

\* json_text = text[start:end], json.loads(json_text), text = text[end + 3:]
\* (lines 316-323); of a fence opener used as the closer the characters
\* json stay in the text
FencedBlock(text, start, end) ==
    [parsed |-> JsonLoads(SubSeq(text, start, end - 1)),
     rest |-> (IF text[end] = FENCE_JSON THEN <<PROSE>> ELSE <<>>)
              \o SubSeq(text, end + 1, Len(text))]

\* the loop over the fenced blocks (lines 312-325); raised: chunk.keys() on a
\* JSON value that is not an object
RECURSIVE ScanFenced(_)
ScanFenced(text) ==
    IF Find(text, {FENCE_JSON}, 1) = 0
       \/ Find(text, {FENCE_JSON, FENCE}, Find(text, {FENCE_JSON}, 1) + 1) = 0
    THEN [chunks |-> <<>>, raised |-> FALSE]
    ELSE
      LET start == Find(text, {FENCE_JSON}, 1) + 1
          block == FencedBlock(text, start, Find(text, {FENCE_JSON, FENCE}, start))
      IN
      IF block.parsed.ok /\ ~block.parsed.is_dict
      THEN [chunks |-> <<>>, raised |-> TRUE]
      ELSE [chunks |-> (IF block.parsed.ok THEN <<block.parsed.value>> ELSE <<>>)
                       \o ScanFenced(block.rest).chunks,
            raised |-> ScanFenced(block.rest).raised]

\* a fallback that parses the span from the first { to the first }
BracketSpan_first_close(response_text) ==
    IF Find(response_text, {LBRACE}, 1) = 0
       \/ Find(response_text, {RBRACE}, 1) = 0
    THEN [ok |-> FALSE, is_dict |-> FALSE, value |-> <<>>]
    ELSE JsonLoads(SubSeq(response_text, Find(response_text, {LBRACE}, 1),
                          Find(response_text, {RBRACE}, 1)))

\* the fallback of lines 336-348: the span from the first { to the last }
BracketSpan(response_text) ==
    IF Find(response_text, {LBRACE}, 1) = 0 \/ RFind(response_text, {RBRACE}) = 0
    THEN [ok |-> FALSE, is_dict |-> FALSE, value |-> <<>>]
    ELSE JsonLoads(SubSeq(response_text, Find(response_text, {LBRACE}, 1),
                          RFind(response_text, {RBRACE})))

NoResult == [form |-> "none", value |-> <<>>]

Engine(acc, has_acc, last, has_last) ==
    [acc |-> acc, has_acc |-> has_acc, last |-> last, has_last |-> has_last]

\* lines 328-333: the chunks found are merged (m), the merge is stored
ParseMerged(m, new, eng) ==
    [outcome |-> IF m.raised THEN "error" ELSE "merged",
     result |-> IF m.raised THEN NoResult
                ELSE [form |-> "merged", value |-> m.merged],
     eng |-> IF m.raised
             THEN Engine(m.accumulated, TRUE, eng.last, eng.has_last)
             ELSE Engine(m.accumulated, TRUE, m.merged, TRUE),
     merge |-> <<[new |-> new, accumulated |-> m.accumulated,
                  raised |-> m.raised, merged |-> m.merged]>>]

\* lines 336-348: no chunk was found, the bracket span is parsed
ParseFallback(span, eng) ==
    [outcome |-> IF span.ok THEN "raw" ELSE "error",
     result |-> IF span.ok THEN [form |-> "raw", value |-> span.value]
                ELSE NoResult,
     eng |-> eng,
     merge |-> <<>>]

\* the body of _parse_response once the fenced blocks are scanned
ParseScanned(scan, response_text, eng) ==
    IF scan.raised
    THEN [outcome |-> "error", result |-> NoResult, eng |-> eng, merge |-> <<>>]
    ELSE IF scan.chunks # <<>>
    THEN ParseMerged(MergeAnalysisChunks(eng.acc, eng.has_acc, scan.chunks),
                     scan.chunks, eng)
    ELSE ParseFallback(BracketSpan(response_text), eng)

\* outcome: "merged" | "raw" (returned) | "error" (ValueError); eng: the
\* instance attributes after the call; merge: the call of the merge, if any
ParseResponse(response_text, eng) ==
    ParseScanned(ScanFenced(response_text), response_text, eng)

-----
(* VisionAnalyzer.analyze_screenshot *)

Categories == <<"typography", "colors", "layout", "components">>
CategorySet == { Categories[i] : i \in 1..Len(Categories) }

NoRet == [kind |-> "none", result |-> NoResult, error |-> <<>>, caught |-> ""]

\* a value returned by the try block (lines 36-41)
Returned(result) ==
    [kind |-> "returned", result |-> result, error |-> <<>>, caught |-> ""]

\* an except clause without the recovery from the last successful merge
Except_always_raises(e, last, has_last) ==
    [kind |-> "raised", result |-> NoResult,
     error |-> <<"Vision analysis failed", e>>, caught |-> e]

\* an except clause that swallows the exception and returns an empty analysis
Except_swallows(e, last, has_last) ==
    [kind |-> "returned",
     result |-> [form |-> "merged",
                 value |-> IF has_last THEN last
                           ELSE [k \in SchemaKeys |-> Placeholder(k)]],
     error |-> <<>>, caught |-> e]

\* the except clause (lines 43-48); e is the exception of the stage
Except(e, last, has_last) ==
    IF has_last
    THEN [kind |-> "returned", result |-> [form |-> "merged", value |-> last],
          error |-> <<>>, caught |-> e]
    ELSE [kind |-> "raised", result |-> NoResult,
          error |-> <<"Vision analysis failed", e>>, caught |-> e]

\* a model call resolves: the API raises, or it answers with a text of RS;
\* a text with a parsable fenced block is merged while the chunk history
\* stays within MaxHistory
Outcomes(RS) ==
    { [api |-> "error", text |-> <<>>] } \cup { [api |-> "ok", text |-> r] : r \in RS }

Admitted(o) ==
    \/ o.api = "error"
    \/ Len(Accumulate(accumulated_chunks, has_accumulated_chunks,
                      ScanFenced(o.text).chunks)) <= MaxHistory
    \/ ScanFenced(o.text).raised
    \/ ScanFenced(o.text).chunks = <<>>

CurrentEngine ==
    Engine(accumulated_chunks, has_accumulated_chunks,
           last_successful_merge, has_last_successful_merge)

\* the awaited call answered and its content was parsed as p
Parsed(p) ==
    [outcome |-> p.outcome,
     caught |-> IF p.outcome = "error" THEN "ValueError" ELSE "",
     result |-> p.result, eng |-> p.eng, merge |-> p.merge]

\* what the awaited call and the parse of its content come to in an instance
\* whose attributes are eng: the call raised, or its content was parsed
ResolveIn(o, eng) ==
    IF o.api = "error"
    THEN [outcome |-> "error", caught |-> "APIError", result |-> NoResult,
          eng |-> eng, merge |-> <<>>]
    ELSE Parsed(ParseResponse(o.text, eng))

Resolve(o) == ResolveIn(o, CurrentEngine)

SetEngine(r) ==
    /\ accumulated_chunks' = r.eng.acc
    /\ has_accumulated_chunks' = r.eng.has_acc
    /\ last_successful_merge' = r.eng.last
    /\ has_last_successful_merge' = r.eng.has_last
    /\ merge_image' = IF r.outcome = "merged" THEN base64_image
                      ELSE merge_image
    /\ merge_calls' = merge_calls \o r.merge

engineVars == <<accumulated_chunks, has_accumulated_chunks, last_successful_merge,
                has_last_successful_merge, merge_image, merge_calls>>

VAInit ==
    /\ accumulated_chunks = <<>>
    /\ has_accumulated_chunks = FALSE
    /\ last_successful_merge = <<>>
    /\ has_last_successful_merge = FALSE
    /\ merge_image = ""
    /\ base64_image = ""
    /\ engine_at_call = Engine(<<>>, FALSE, <<>>, FALSE)
    /\ stage = "idle"
    /\ last_resolved = <<>>
    /\ focused_status = [c \in CategorySet |-> "pending"]
    /\ focused_analyses = <<>>
    /\ comprehensive_analysis = NoResult
    /\ ret = NoRet
    /\ merge_calls = <<>>

\* lines 35-41: the analysis of the mode is entered and its first model
\* call(s) are issued
EnterAnalysis(mode, screenshot) ==
    /\ stage = "idle"
    /\ base64_image' = screenshot
    /\ engine_at_call' = CurrentEngine
    /\ stage' = mode
    /\ last_resolved' = <<>>
    /\ focused_status' = [c \in CategorySet |-> "pending"]
    /\ focused_analyses' = <<>>
    /\ comprehensive_analysis' = NoResult
    /\ ret' = NoRet
    /\ UNCHANGED engineVars

\* analyze_screenshot is called by a user of the engine
AnalyzeScreenshot(mode, screenshot) ==
    /\ EnterAnalysis(mode, screenshot)
    /\ UNCHANGED <<abVars, stVars, szVars, mainVars, segVars, apiVars>>

\* the end of analyze_screenshot after a stage resolved as r
Finish(r) ==
    /\ SetEngine(r)
    /\ stage' = "idle"
    /\ ret' = IF r.outcome = "error"
              THEN Except(r.caught, r.eng.last, r.eng.has_last)
              ELSE Returned(r.result)

\* _single_stage_analysis: its one call resolves
SingleStageAnalysis(RS) ==
    /\ stage = "single"
    /\ \E o \in Outcomes(RS) :
          /\ Admitted(o)
          /\ Finish(Resolve(o))
    /\ UNCHANGED <<base64_image, engine_at_call, last_resolved, focused_status,
                   focused_analyses, comprehensive_analysis>>
    /\ UNCHANGED <<abVars, stVars, szVars, mainVars, segVars, apiVars>>

\* _custom_prompt_analysis: its one call resolves
CustomPromptAnalysis(RS) ==
    /\ stage = "custom"
    /\ \E o \in Outcomes(RS) :
          /\ Admitted(o)
          /\ Finish(Resolve(o))
    /\ UNCHANGED <<base64_image, engine_at_call, last_resolved, focused_status,
                   focused_analyses, comprehensive_analysis>>
    /\ UNCHANGED <<abVars, stVars, szVars, mainVars, segVars, apiVars>>

\* a focused pass that keeps an entry for a failed category
Gathered_keeps_failed(c, r) ==
    /\ SetEngine(r)
    /\ focused_status' =
         [focused_status EXCEPT
            ![c] = IF r.outcome = "error" THEN "failed" ELSE "ok"]
    /\ focused_analyses' = Put(focused_analyses, c, r.result)

\* lines 118-125: gather keeps the result r of category c, or drops its
\* exception
Gathered(c, r) ==
    /\ SetEngine(r)
    /\ focused_status' =
         [focused_status EXCEPT
            ![c] = IF r.outcome = "error" THEN "failed" ELSE "ok"]
    /\ focused_analyses' =
         IF r.outcome = "error" THEN focused_analyses
         ELSE Put(focused_analyses, c, r.result)

\* _analyze_category: the call of one focused category resolves
AnalyzeCategory(RS) ==
    /\ stage = "multi"
    /\ \E c \in CategorySet, o \in Outcomes(RS) :
          /\ focused_status[c] = "pending"
          /\ Admitted(o)
          /\ Gathered(c, Resolve(o))
          /\ last_resolved' = <<[category |-> c, o |-> o]>>
    /\ UNCHANGED <<base64_image, engine_at_call, stage,
                   comprehensive_analysis, ret>>
    /\ UNCHANGED <<abVars, stVars, szVars, mainVars, segVars, apiVars>>

\* a focused pass that returns while a category call is still in flight
RunFocusedAnalyses_early ==
    /\ stage = "multi"
    /\ stage' = "synthesis"
    /\ last_resolved' = <<>>
    /\ UNCHANGED <<base64_image, engine_at_call, focused_status,
                   focused_analyses, comprehensive_analysis, ret>>
    /\ UNCHANGED engineVars
    /\ UNCHANGED <<abVars, stVars, szVars, mainVars, segVars, apiVars>>

\* _run_focused_analyses returns once every category resolved; the synthesis
\* call is issued
RunFocusedAnalyses ==
    /\ stage = "multi"
    /\ \A c \in CategorySet : focused_status[c] # "pending"
    /\ stage' = "synthesis"
    /\ last_resolved' = <<>>
    /\ UNCHANGED <<base64_image, engine_at_call, focused_status,
                   focused_analyses, comprehensive_analysis, ret>>
    /\ UNCHANGED engineVars
    /\ UNCHANGED <<abVars, stVars, szVars, mainVars, segVars, apiVars>>

\* lines 94-103: an exception of the synthesis ends analyze_screenshot, its
\* result r is handed to the validation call
Synthesized(r) ==
    IF r.outcome = "error"
    THEN Finish(r) /\ UNCHANGED comprehensive_analysis
    ELSE /\ SetEngine(r)
         /\ stage' = "validation"
         /\ comprehensive_analysis' = r.result
         /\ UNCHANGED ret

\* _synthesize_analysis: its call resolves; the validation call is issued
SynthesizeAnalysis(RS) ==
    /\ stage = "synthesis"
    /\ \E o \in Outcomes(RS) :
          /\ Admitted(o)
          /\ Synthesized(Resolve(o))
    /\ UNCHANGED <<base64_image, engine_at_call, last_resolved, focused_status,
                   focused_analyses>>
    /\ UNCHANGED <<abVars, stVars, szVars, mainVars, segVars, apiVars>>

\* _validate_analysis: its call resolves and analyze_screenshot ends
ValidateAnalysis(RS) ==
    /\ stage = "validation"
    /\ \E o \in Outcomes(RS) :
          /\ Admitted(o)
          /\ Finish(Resolve(o))
    /\ UNCHANGED <<base64_image, engine_at_call, last_resolved, focused_status,
                   focused_analyses, comprehensive_analysis>>
    /\ UNCHANGED <<abVars, stVars, szVars, mainVars, segVars, apiVars>>

\* the analysis engine, all modes
VANext ==
    \/ \E mode \in {"custom", "multi", "single"},
          screenshot \in {"desktop", "mobile"} :
          AnalyzeScreenshot(mode, screenshot)
    \/ SingleStageAnalysis(StageResponses)
    \/ CustomPromptAnalysis(StageResponses)
    \/ AnalyzeCategory(StageResponses)
    \/ RunFocusedAnalyses
    \/ SynthesizeAnalysis(StageResponses)
    \/ ValidateAnalysis(StageResponses)

\* one engine instance parsing the responses of single-call analyses
ParseNext ==
    \/ AnalyzeScreenshot("single", "desktop")
    \/ SingleStageAnalysis(AllResponses)

-----------------------------------------------------------------------------
(* ABTestGenerator: patterns, image dicts, quality reports *)

\* AB_TEST_PATTERNS, in the insertion order of the dict
PatternOrder == <<"1", "2", "3", "4">>

PatternIds == {PatternOrder[i] : i \in DOMAIN PatternOrder}

PatternName(pattern_id) ==
    CASE pattern_id = "1" -> "Hero-First Layout"
      [] pattern_id = "2" -> "Feature-Grid Layout"
      [] pattern_id = "3" -> "Content-Heavy Layout"
      [] pattern_id = "4" -> "Conversion-Optimized Layout"

LayoutStrategy(pattern_id) ==
    CASE pattern_id = "1" -> "hero_dominant"
      [] pattern_id = "2" -> "feature_grid"
      [] pattern_id = "3" -> "content_rich"
      [] pattern_id = "4" -> "conversion_focused"

\* f"variation_{pattern_id}"
VariationKey(pattern_id) ==
    CASE pattern_id = "1" -> "variation_1"
      [] pattern_id = "2" -> "variation_2"
      [] pattern_id = "3" -> "variation_3"
      [] pattern_id = "4" -> "variation_4"

\* one entry of the issues list of a quality report; "" is a missing key
Issue(type, severity, fix) == [type |-> type, severity |-> severity, fix |-> fix]

\* a quality report dict; "absent" is a missing key
Report(has_issues, issues, regeneration_needed) ==
    [present |-> TRUE, has_issues |-> has_issues, issues |-> issues,
     regeneration_needed |-> regeneration_needed, error |-> ""]

\* the local quality_check before it is bound
NoQualityCheck ==
    [present |-> FALSE, has_issues |-> "absent", issues |-> <<>>,
     regeneration_needed |-> "absent", error |-> ""]

\* lines 627 and 632: the report returned when the check could not be made
QualityDefault(error) ==
    [present |-> TRUE, has_issues |-> "false", issues |-> <<>>,
     regeneration_needed |-> "false", error |-> error]

\* the JSON objects the vision model answers the quality prompt with
QualityReports ==
    { Report("false", <<>>, "false"),
      Report("true", <<Issue("spacing", "low", "widen margins")>>, "false"),
      Report("true", <<Issue("overflow", "high", "wrap text"),
                       Issue("spacing", "low", "widen margins")>>, "true"),
      Report("true", <<Issue("alignment", "medium", "align grid")>>, "absent"),
      Report("true", <<Issue("alignment", "medium", "align grid"),
                       Issue("spacing", "low", "widen margins"),
                       Issue("overflow", "high", "wrap text")>>, "true"),
      Report("true", <<Issue("", "high", "wrap text")>>, "true"),
      Report("false", <<Issue("overflow", "", "wrap text")>>, "true"),
      Report("false", <<Issue("", "low", "widen margins")>>, "true") }

\* a response of the quality call: the call raised, or the message content is
\* empty, has no brace pair, has a brace pair that is not JSON, or holds a
\* report
QualityResponse(api, content, report) ==
    [api |-> api, content |-> content, report |-> report]

QualityResponses ==
    { QualityResponse("error", "none", NoQualityCheck),
      QualityResponse("ok", "none", NoQualityCheck),
      QualityResponse("ok", "prose", NoQualityCheck),
      QualityResponse("ok", "bad_json", NoQualityCheck) }
    \cup { QualityResponse("ok", "json", r) : r \in QualityReports }

NoPath == <<>>

\* an image dict; NoPath and "" are missing keys
Image(local_path, error, method, quality_improved, improvements_applied) ==
    [present |-> TRUE, local_path |-> local_path, error |-> error,
     method |-> method, quality_improved |-> quality_improved,
     improvements_applied |-> improvements_applied,
     quality_check |-> NoQualityCheck]

\* a local of _create_variation before it is bound
NoImage ==
    [present |-> FALSE, local_path |-> NoPath, error |-> "", method |-> "",
     quality_improved |-> FALSE, improvements_applied |-> <<>>,
     quality_check |-> NoQualityCheck]

\* lines 501-527: what _generate_variation_image_with_screenshot returns once
\* images.edit resolved
EditImage(pattern_id, outcome) ==
    IF outcome = "ok"
    THEN Image(<<"variation", pattern_id>>, "", "", FALSE, <<>>)
    ELSE Image(NoPath, "APIError", "", FALSE, <<>>)

\* lines 882-914: what _generate_text_only_variation returns once
\* images.generate resolved
TextOnlyImage(pattern_id, outcome) ==
    IF outcome = "ok"
    THEN Image(<<"variation_text", pattern_id>>, "", "text_only_fallback",
               FALSE, <<>>)
    ELSE Image(NoPath, "APIError", "text_only_fallback", FALSE, <<>>)

\* a quality check that asks for a regeneration when it cannot read the
\* answer of the model
QualityCheck_flags_unreadable(response) ==
    IF response.api = "error" THEN QualityDefault("APIError")
    ELSE IF response.content = "none" THEN QualityDefault("")
    ELSE IF response.content = "json" THEN response.report
    ELSE [present |-> TRUE, has_issues |-> "true", issues |-> <<>>,
          regeneration_needed |-> "true", error |-> "JSONDecodeError"]

\* lines 594-632: the dict _quality_check_image returns for a response
QualityCheck(response) ==
    IF response.api = "error" THEN QualityDefault("APIError")
    ELSE IF response.content = "none" THEN QualityDefault("")
    ELSE IF response.content = "prose" THEN QualityDefault("UnboundLocalError")
    ELSE IF response.content = "bad_json" THEN QualityDefault("JSONDecodeError")
    ELSE IF /\ response.report.has_issues = "true"
            /\ \E i \in DOMAIN response.report.issues :
                  response.report.issues[i].type = ""
         THEN QualityDefault("KeyError")
    ELSE response.report

\* a pipeline that sends whatever the image step returned to the quality check
Usable_always(image) == TRUE

\* line 197: variation_image.get('local_path') and not
\* variation_image.get('error')
Usable(image) == image.local_path # NoPath /\ image.error = ""

\* a pipeline that regenerates whenever the report lists issues
NeedsRegeneration_has_issues(quality) == quality.has_issues = "true"

\* line 203: quality_check.get('regeneration_needed', False)
NeedsRegeneration(quality) == quality.regeneration_needed = "true"

\* issue['type'].upper() (line 651)
Upper(type) ==
    CASE type = "spacing" -> "SPACING"
      [] type = "overflow" -> "OVERFLOW"
      [] type = "alignment" -> "ALIGNMENT"
      [] OTHER -> type

\* lines 649-651: the feedback loop indexes severity of every issue, type and
\* fix of the high and medium ones
FeedbackRaises(issues) ==
    \E i \in DOMAIN issues :
       \/ issues[i].severity = ""
       \/ /\ issues[i].severity \in {"high", "medium"}
          /\ (issues[i].type = "" \/ issues[i].fix = "")

\* a feedback that lists a fix line for every reported issue
FeedbackInstructions_all_issues(issues) ==
    <<[kind |-> "header", type |-> "", fix |-> ""]>>
    \o [k \in DOMAIN issues |->
          [kind |-> "fix", type |-> Upper(issues[k].type),
           fix |-> issues[k].fix]]
    \o <<[kind |-> "guidelines", type |-> "", fix |-> ""]>>

\* lines 647-663: the header, a fix line for every issue of severity high or
\* medium, in the order of the report, and the fixed quality guidelines
FeedbackInstructions(issues) ==
    <<[kind |-> "header", type |-> "", fix |-> ""]>>
    \o [k \in DOMAIN SelectSeq(issues, LAMBDA issue :
                                   issue.severity \in {"high", "medium"}) |->
          [kind |-> "fix",
           type |-> Upper(SelectSeq(issues, LAMBDA issue :
                             issue.severity \in {"high", "medium"})[k].type),
           fix |-> SelectSeq(issues, LAMBDA issue :
                      issue.severity \in {"high", "medium"})[k].fix]]
    \o <<[kind |-> "guidelines", type |-> "", fix |-> ""]>>

\* lines 676-719: what _regenerate_with_feedback returns once images.edit
\* resolved
RegenerateResult(pattern_id, issues, outcome) ==
    IF outcome = "api_error" THEN Image(NoPath, "APIError", "", FALSE, <<>>)
    ELSE IF outcome = "no_data"
         THEN Image(NoPath, "No image data in response", "", FALSE, <<>>)
    ELSE IF \E i \in DOMAIN issues : issues[i].type = ""
         THEN Image(NoPath, "KeyError", "", FALSE, <<>>)
    ELSE Image(<<"improved", pattern_id>>, "", "", TRUE,
               [i \in DOMAIN issues |-> issues[i].type])

\* a pipeline that never adopts the regenerated image
UseImproved_never(improved) == FALSE

\* a pipeline that adopts whatever the regeneration returned
UseImproved_always(improved) == TRUE

\* line 211: improved_image.get('local_path') and not
\* improved_image.get('error')
UseImproved(improved) == improved.local_path # NoPath /\ improved.error = ""

\* line 217: final_image['quality_check'] = quality_check
Tagged(image, quality) == [image EXCEPT !.quality_check = quality]

\* pattern.get('id', '1') in the positioning helpers: the pattern dicts of
\* AB_TEST_PATTERNS have no id key
PatternDictId(pattern_id) == "1"

\* lines 320-362: the prompt _create_image_modification_prompt builds
ImagePrompt(pattern_id) ==
    [present |-> TRUE, goal |-> PatternName(pattern_id),
     strategy |-> LayoutStrategy(pattern_id),
     positioning |-> PatternDictId(pattern_id)]

\* lines 220-231: the Variation record
Variation(pattern_id, components, code, image) ==
    [id |-> pattern_id, name |-> PatternName(pattern_id),
     layout_strategy |-> LayoutStrategy(pattern_id),
     modified_components |-> components, react_code |-> code,
     image_prompt |-> image_prompt[pattern_id], generated_image |-> image]

NoPackage ==
    [present |-> FALSE, selected_pattern |-> "", total_variations |-> 0,
     variations |-> <<>>]

\* a package whose metadata counts the patterns that were asked for
Package_counts_requested(selection, vs) ==
    [present |-> TRUE, selected_pattern |-> selection,
     total_variations |-> IF selection = "all" THEN Len(PatternOrder) ELSE 1,
     variations |-> vs]

\* lines 111-122: the package generate_ab_variations returns
Package(selection, vs) ==
    [present |-> TRUE, selected_pattern |-> selection,
     total_variations |-> Cardinality(DOMAIN vs), variations |-> vs]

\* the count of invocations of each step of a pipeline
Steps == {"modify", "react", "image", "text_only", "quality", "regenerate"}

Called(c, pattern_id, step) == [c EXCEPT ![pattern_id][step] = @ + 1]

-----------------------------------------------------------------------------
(* ABTestGenerator.generate_ab_variations *)

ABInit ==
    /\ screenshot_exists = FALSE
    /\ selected_pattern = ""
    /\ run = "idle"
    /\ tasks = <<>>
    /\ variations = <<>>
    /\ ab_test_package = NoPackage
    /\ pc = [p \in PatternIds |-> "not_started"]
    /\ modified_components =
         [p \in PatternIds |->
             [present |-> FALSE, modification_strategy |-> ""]]
    /\ variation_react_code = [p \in PatternIds |-> ""]
    /\ image_prompt =
         [p \in PatternIds |->
             [present |-> FALSE, goal |-> "", strategy |-> "",
              positioning |-> ""]]
    /\ enhanced_prompt = [p \in PatternIds |-> <<>>]
    /\ variation_image = [p \in PatternIds |-> NoImage]
    /\ quality_check = [p \in PatternIds |-> NoQualityCheck]
    /\ improved_image = [p \in PatternIds |-> NoImage]
    /\ final_image = [p \in PatternIds |-> NoImage]
    /\ first_generated = [p \in PatternIds |-> NoImage]
    /\ calls = [p \in PatternIds |-> [s \in Steps |-> 0]]

\* the pipeline awaited after the current one, "" when there is none
NextTask == IF Len(tasks) > 1 THEN tasks[2] ELSE ""

\* a run that returns as soon as one pipeline ended, leaving the others
RunAfter_first_only(status) ==
    IF status = "raised" /\ selected_pattern # "all" THEN "raised"
    ELSE "returned"

\* lines 104-122 and 158-174: how the run stands once the pipeline at the
\* head of tasks ended with the given status
RunAfter(status) ==
    IF status = "raised" /\ selected_pattern # "all" THEN "raised"
    ELSE IF Len(tasks) > 1 THEN "running"
    ELSE "returned"

\* the pipeline of pattern_id goes on to its next awaited call
Continue(pattern_id, next, c) ==
    /\ pc' = [pc EXCEPT ![pattern_id] = next]
    /\ calls' = c
    /\ UNCHANGED runVars

\* the pipeline of pattern_id ends, status returned or raised: lines 160-166
\* store the record or print the exception and await the next pipeline, whose
\* first call is issued; lines 173-174 return the record or let the exception
\* through; lines 111-124 build the package
EndOf(pattern_id, status, variation, c) ==
    /\ tasks' = Tail(tasks)
    /\ pc' = [q \in PatternIds |->
                IF q = pattern_id THEN status
                ELSE IF q = NextTask THEN "modify"
                ELSE pc[q]]
    /\ calls' = IF NextTask = "" THEN c ELSE Called(c, NextTask, "modify")
    /\ variations' = IF status = "returned"
                     THEN Put(variations, VariationKey(pattern_id), variation)
                     ELSE variations
    /\ run' = RunAfter(status)
    /\ ab_test_package' = IF RunAfter(status) = "returned"
                          THEN Package(selected_pattern, variations')
                          ELSE NoPackage
    /\ UNCHANGED selected_pattern

\* generate_ab_variations is called with a selection (given, or asked from the
\* user); the first pipeline starts and issues its first call
GenerateAbVariations(selection, on_disk) ==
    /\ run = "idle"
    /\ selected_pattern' = selection
    /\ screenshot_exists' = on_disk
    /\ run' = "running"
    /\ tasks' = IF selection = "all" THEN PatternOrder ELSE <<selection>>
    /\ pc' = [pc EXCEPT ![Head(tasks')] = "modify"]
    /\ calls' = Called(calls, Head(tasks'), "modify")
    /\ UNCHANGED <<variations, ab_test_package, modified_components,
                   variation_react_code, image_prompt, enhanced_prompt,
                   variation_image,
                   quality_check, improved_image, final_image,
                   first_generated>>
    /\ UNCHANGED <<vaVars, stVars, szVars, mainVars, segVars, apiVars>>

\* the pipeline the run is awaiting is suspended at the given call
Awaiting(at) == run = "running" /\ pc[Head(tasks)] = at

\* _modify_components: its completion resolves; an exception leaves
\* _create_variation
ModifyComponents ==
    /\ Awaiting("modify")
    /\ \E ok \in BOOLEAN :
          IF ok
          THEN /\ modified_components' =
                    [modified_components EXCEPT
                       ![Head(tasks)] =
                           [present |-> TRUE,
                            modification_strategy |->
                                LayoutStrategy(Head(tasks))]]
               /\ Continue(Head(tasks), "react",
                           Called(calls, Head(tasks), "react"))
          ELSE /\ EndOf(Head(tasks), "raised", <<>>, calls)
               /\ UNCHANGED modified_components
    /\ UNCHANGED <<variation_react_code, image_prompt, enhanced_prompt,
                   variation_image, quality_check, improved_image,
                   final_image, first_generated>>
    /\ UNCHANGED <<screenshot_exists, vaVars, stVars, szVars, mainVars,
                   segVars, apiVars>>

\* a pipeline that goes from the code draft straight to the quality check
ImageStep_skipped == "quality"

\* an image step that issues the edit call whether or not a screenshot exists
ImageStep_always_edit == "image"

\* lines 464-469: the image step looks for the original screenshot and falls
\* back to text-only generation without one
ImageStep == IF screenshot_exists THEN "image" ELSE "text_only"

\* _generate_variation_react_code: its completion resolves; an exception
\* leaves _create_variation, else the prompt is built and the image call issued
GenerateVariationReactCode ==
    /\ Awaiting("react")
    /\ \E ok \in BOOLEAN :
          IF ok
          THEN /\ variation_react_code' =
                    [variation_react_code EXCEPT ![Head(tasks)] = "code"]
               /\ image_prompt' =
                    [image_prompt EXCEPT ![Head(tasks)] = ImagePrompt(Head(tasks))]
               /\ Continue(Head(tasks), ImageStep,
                           IF screenshot_exists
                           THEN Called(calls, Head(tasks), "image")
                           ELSE Called(Called(calls, Head(tasks), "image"),
                                       Head(tasks), "text_only"))
          ELSE /\ EndOf(Head(tasks), "raised", <<>>, calls)
               /\ UNCHANGED <<variation_react_code, image_prompt>>
    /\ UNCHANGED <<modified_components, enhanced_prompt, variation_image,
                   quality_check, improved_image, final_image,
                   first_generated>>
    /\ UNCHANGED <<screenshot_exists, vaVars, stVars, szVars, mainVars,
                   segVars, apiVars>>

\* lines 196-199 and 220-233: the image step returned image; a usable image
\* goes to the quality check, any other ends the pipeline with its record
Generated(pattern_id, image) ==
    /\ first_generated' = [first_generated EXCEPT ![pattern_id] = image]
    /\ variation_image' = [variation_image EXCEPT ![pattern_id] = image]
    /\ final_image' = [final_image EXCEPT ![pattern_id] = image]
    /\ IF Usable(image)
       THEN Continue(pattern_id, "quality",
                     Called(calls, pattern_id, "quality"))
       ELSE EndOf(pattern_id, "returned",
                  Variation(pattern_id, modified_components[pattern_id],
                            variation_react_code[pattern_id], image),
                  calls)
    /\ UNCHANGED <<modified_components, variation_react_code, image_prompt,
                   enhanced_prompt, quality_check, improved_image>>

\* _generate_variation_image_with_screenshot: images.edit resolves
GenerateVariationImageWithScreenshot ==
    /\ Awaiting("image")
    /\ \E outcome \in {"ok", "error"} :
          Generated(Head(tasks), EditImage(Head(tasks), outcome))
    /\ UNCHANGED <<screenshot_exists, vaVars, stVars, szVars, mainVars,
                   segVars, apiVars>>

\* _generate_text_only_variation: images.generate resolves
GenerateTextOnlyVariation ==
    /\ Awaiting("text_only")
    /\ \E outcome \in {"ok", "error"} :
          Generated(Head(tasks), TextOnlyImage(Head(tasks), outcome))
    /\ UNCHANGED <<screenshot_exists, vaVars, stVars, szVars, mainVars,
                   segVars, apiVars>>

\* lines 210-233: the pipeline ends with the image it keeps, the improved one
\* when adopted; final_image is the same dict as the local it was taken from,
\* so the quality report is written into that dict
Completed(pattern_id, quality, improved, adopted) ==
    /\ improved_image' =
         [improved_image EXCEPT
            ![pattern_id] = IF adopted THEN Tagged(improved, quality)
                            ELSE improved]
    /\ variation_image' =
         [variation_image EXCEPT
            ![pattern_id] = IF adopted THEN @ ELSE Tagged(@, quality)]
    /\ final_image' =
         [final_image EXCEPT
            ![pattern_id] = IF adopted THEN Tagged(improved, quality)
                            ELSE Tagged(variation_image[pattern_id], quality)]

\* the record of a pipeline that went through the quality check
CheckedVariation(pattern_id, quality, improved, adopted) ==
    Variation(pattern_id, modified_components[pattern_id],
              variation_react_code[pattern_id],
              IF adopted THEN Tagged(improved, quality)
              ELSE Tagged(variation_image[pattern_id], quality))

\* a pipeline that sends the regenerated image back to the quality check
Regenerated_rechecks(pattern_id, quality, improved, c) ==
    /\ Completed(pattern_id, quality, improved, UseImproved(improved))
    /\ Continue(pattern_id, "quality", Called(c, pattern_id, "quality"))

\* lines 204-233: _regenerate_with_feedback returned improved
Regenerated(pattern_id, quality, improved, c) ==
    /\ Completed(pattern_id, quality, improved, UseImproved(improved))
    /\ EndOf(pattern_id, "returned",
             CheckedVariation(pattern_id, quality, improved,
                              UseImproved(improved)),
             c)

\* lines 200-217: the quality check returned quality; a regeneration builds
\* its prompt (line 666) before it looks for the screenshot
Checked(pattern_id, quality) ==
    /\ quality_check' = [quality_check EXCEPT ![pattern_id] = quality]
    /\ enhanced_prompt' =
         IF NeedsRegeneration(quality) /\ ~FeedbackRaises(quality.issues)
         THEN [enhanced_prompt EXCEPT
                 ![pattern_id] =
                     <<[original_prompt |-> image_prompt[pattern_id],
                        feedback_instructions |->
                            FeedbackInstructions(quality.issues)]>>]
         ELSE enhanced_prompt
    /\ IF ~NeedsRegeneration(quality)
       THEN /\ Completed(pattern_id, quality, NoImage, FALSE)
            /\ EndOf(pattern_id, "returned",
                     CheckedVariation(pattern_id, quality, NoImage, FALSE),
                     calls)
       ELSE IF FeedbackRaises(quality.issues)
       THEN /\ EndOf(pattern_id, "raised", <<>>,
                     Called(calls, pattern_id, "regenerate"))
            /\ UNCHANGED <<variation_image, improved_image, final_image>>
       ELSE IF ~screenshot_exists
       THEN \* lines 673-674
            Regenerated(pattern_id, quality,
                        Image(NoPath, "No original screenshot available", "",
                              FALSE, <<>>),
                        Called(calls, pattern_id, "regenerate"))
       ELSE /\ Continue(pattern_id, "regenerate",
                        Called(calls, pattern_id, "regenerate"))
            /\ UNCHANGED <<variation_image, improved_image, final_image>>

\* _quality_check_image: the vision call resolves; when the report asks for
\* it, _regenerate_with_feedback starts and runs to its images.edit call
QualityCheckImage ==
    /\ Awaiting("quality")
    /\ \E response \in QualityResponses :
          Checked(Head(tasks), QualityCheck(response))
    /\ UNCHANGED <<modified_components, variation_react_code, image_prompt,
                   first_generated>>
    /\ UNCHANGED <<screenshot_exists, vaVars, stVars, szVars, mainVars,
                   segVars, apiVars>>

\* _regenerate_with_feedback: images.edit resolves (an image, an exception,
\* or a response without image data) and the pipeline ends
RegenerateWithFeedback ==
    /\ Awaiting("regenerate")
    /\ \E outcome \in {"ok", "api_error", "no_data"} :
          Regenerated(Head(tasks), quality_check[Head(tasks)],
                      RegenerateResult(Head(tasks),
                                       quality_check[Head(tasks)].issues,
                                       outcome),
                      calls)
    /\ UNCHANGED <<modified_components, variation_react_code, image_prompt,
                   enhanced_prompt, quality_check, first_generated>>
    /\ UNCHANGED <<screenshot_exists, vaVars, stVars, szVars, mainVars,
                   segVars, apiVars>>

\* the variation generator
ABNext ==
    \/ \E selection \in (PatternIds \cup {"all"}), on_disk \in BOOLEAN :
          GenerateAbVariations(selection, on_disk)
    \/ ModifyComponents
    \/ GenerateVariationReactCode
    \/ GenerateVariationImageWithScreenshot
    \/ GenerateTextOnlyVariation
    \/ QualityCheckImage
    \/ RegenerateWithFeedback

-----------------------------------------------------------------------------
(* VariationStylizer: the style catalog and the output path *)

\* a style name is a sequence of words and separators; a word is its letters
\* in lower case and the way they are capitalised in the name
Word(s, caps) == [t |-> "word", s |-> s, caps |-> caps]

Sep(s) == [t |-> "sep", s |-> s, caps |-> "none"]

T(s) == Word(s, "title")

\* batch_size of _apply_styles_to_image
BatchSize == 5

\* the names of style_presets.STYLE_PRESETS, in the order of the list
STYLE_PRESETS ==
    << <<T("neo"), Sep("-"), T("brutalism")>>,
       <<T("glassmorphism")>>,
       <<T("claymorphism")>>,
       <<T("cyberpunk"), Sep(" "), T("neon"), Sep(" "), T("noir")>>,
       <<T("vaporwave"), Sep(" "), T("retro")>>,
       <<T("swiss"), Sep(" "), T("minimalism")>>,
       <<T("maximalist"), Sep(" "), Word("y2k", "upper")>>,
       <<T("dark"), Sep(" "), T("luxury")>>,
       <<T("editorial"), Sep(" "), T("magazine")>>,
       <<T("retro"), Sep(" "), T("pixel"), Sep(" "), T("art")>>,
       <<T("skeuomorphic"), Sep(" "), T("realism")>>,
       <<T("motion"), Sep(" "), T("scrollytelling")>>,
       <<T("immersive"), Sep(" "), Word("3d", "upper"), Sep(" "),
         Word("webgl", "mixed")>>,
       <<T("split"), Sep(" "), T("screen"), Sep(" "), T("story")>>,
       <<T("card"), Sep(" "), T("dashboard")>>,
       <<T("typographic"), Sep(" "), T("playground")>>,
       <<T("monochrome"), Sep(" "), T("noir")>>,
       <<T("pastel"), Sep(" "), T("soft"), Sep(" "), T("gradient")>>,
       <<T("photo"), Sep("-"), T("led"), Sep(" "), T("minimal")>>,
       <<Word("ai", "upper"), Sep("-"), T("generated"), Sep(" "),
         T("dynamic")>> >>

\* str.lower on one token
Lower(token) ==
    IF token.t = "word" THEN [token EXCEPT !.caps = "lower"] ELSE token

\* str.replace(old, new) on one token
Replace(token, old, new) == IF token = Sep(old) THEN Sep(new) ELSE token

\* a file name that keeps the last word of the style name only
SafeStyleName_last_word(name) == <<Lower(name[Len(name)])>>

\* lines 236-237: style['name'].lower().replace(' ', '_').replace('-', '_')
SafeStyleName(name) ==
    [i \in DOMAIN name |-> Replace(Replace(Lower(name[i]), " ", "_"), "-", "_")]

\* lines 105 and 238-239: os.path.join(output_dir, variation_key,
\* safe_style_name + ".png")
OutputPath(dir, key, name) ==
    <<dir, key, SafeStyleName(name) \o <<Word("png", "ext")>> >>

\* the directories a caller passes as output_dir
OutputDirs == {"outputs/stylized", "out/stylized"}

\* the slot of a gather result that is not there yet
NoOutcome == [style_name |-> <<>>, output_path |-> NoPath, error |-> ""]

\* lines 145-154: _get_best_image_path
GetBestImagePath(variation) == variation.generated_image.local_path

\* a variation of the package handed to the stylizer
PackageVariation(pattern_id, image) ==
    [key |-> VariationKey(pattern_id), name |-> PatternName(pattern_id),
     generated_image |-> image]

\* the packages stylized: one variation, two, or one without an image before
\* one with an image
StylePackages ==
    { <<PackageVariation("1", EditImage("1", "ok"))>>,
      <<PackageVariation("1", EditImage("1", "ok")),
        PackageVariation("2", TextOnlyImage("2", "ok"))>>,
      <<PackageVariation("1", EditImage("1", "error")),
        PackageVariation("2", EditImage("2", "ok"))>> }

\* the presets a run draws on
Catalog == SubSeq(STYLE_PRESETS, 1, MaxStyles)

\* the values of styles_to_apply: none given, or a list of style names
StyleRequests ==
    { <<>>,
      <<STYLE_PRESETS[3], STYLE_PRESETS[1]>>,
      <<STYLE_PRESETS[2]>>,
      [i \in 1..BatchSize |-> STYLE_PRESETS[i]],
      [i \in 1..(BatchSize + 2) |-> STYLE_PRESETS[i]] }

\* lines 69-73: the presets whose name is asked for, in the order of the
\* catalog; every preset when no list is given
SelectedStyles(styles_to_apply) ==
    IF styles_to_apply = <<>> THEN Catalog
    ELSE SelectSeq(Catalog,
                   LAMBDA name : \E i \in DOMAIN styles_to_apply :
                                    styles_to_apply[i] = name)

\* lines 97-101: the variations left to stylize, those without an image
\* skipped
RECURSIVE Runnable(_)
Runnable(queue) ==
    IF queue = <<>> THEN <<>>
    ELSE IF GetBestImagePath(Head(queue)) = NoPath THEN Runnable(Tail(queue))
    ELSE queue

\* the files a directory holds from an earlier run over the catalog
PriorArtifacts(dir, key) ==
    [path \in {OutputPath(dir, key, Catalog[i]) : i \in DOMAIN Catalog}
        |-> "prior"]

\* a stylizer that starts every style at once
BatchAt_single(k) == 0

\* lines 166-168: the start of the batch the k-th style falls in
BatchAt(k) == ((k - 1) \div BatchSize) * BatchSize

\* lines 170-181: the tasks of the batch are created and gathered
Gathering(styles, start) ==
    [k \in DOMAIN styles |->
        IF BatchAt(k) = start THEN "running"
        ELSE IF BatchAt(k) < start THEN "done" ELSE "waiting"]

\* an exception object in the list gather returns
StyleException(e) == [style_name |-> <<>>, output_path |-> NoPath, error |-> e]

\* lines 186-194: the record kept for one gather result, the one made for an
\* exception at lines 189-192
Collect(name, result) ==
    IF result.error # ""
    THEN [style_name |-> name, output_path |-> NoPath, error |-> result.error]
    ELSE result

\* a stylizer that keeps the successes of a batch only
Collected_successes_only(styles, results, start) ==
    SelectSeq([k \in 1..Cardinality({j \in DOMAIN styles : BatchAt(j) = start})
                  |-> results[start + k]],
              LAMBDA r : r.error = "")

\* lines 183-192: the records of one batch, in the order of the batch
Collected(styles, results, start) ==
    [k \in 1..Cardinality({j \in DOMAIN styles : BatchAt(j) = start})
        |-> Collect(styles[start + k], results[start + k])]

\* lines 202-338: what _stylize_single_image returns or raises
StylizeResult(dir, key, name, outcome) ==
    IF outcome \in {"ok", "empty"}
    THEN [style_name |-> name, output_path |-> OutputPath(dir, key, name),
          error |-> ""]
    ELSE IF outcome = "error" THEN StyleException("ReplicateError")
    ELSE StyleException("OSError")

-----------------------------------------------------------------------------
(* VariationStylizer.stylize_all_variations *)

StyleInit ==
    /\ stylizing = "idle"
    /\ styled_package = <<>>
    /\ output_dir = ""
    /\ selected_styles = <<>>
    /\ variation_queue = <<>>
    /\ batch_pc = "none"
    /\ batch_start = 0
    /\ job = <<>>
    /\ batch_results = <<>>
    /\ stylized_results = <<>>
    /\ stylization_results = <<>>
    /\ disk = <<>>

\* lines 93-127 and 135-143: the loop over the variations goes on with queue,
\* whose variations without an image are skipped: the first batch of the next
\* variation is gathered, or the results are saved and returned
Proceed(queue, styles, results) ==
    /\ variation_queue' = Runnable(queue)
    /\ stylizing' = IF Runnable(queue) = <<>> THEN "returned" ELSE "running"
    /\ batch_pc' = IF Runnable(queue) = <<>> THEN "none" ELSE "gather"
    /\ batch_start' = 0
    /\ job' = IF Runnable(queue) = <<>> THEN <<>> ELSE Gathering(styles, 0)
    /\ batch_results' = IF Runnable(queue) = <<>> THEN results
                        ELSE [k \in DOMAIN styles |-> NoOutcome]
    /\ stylized_results' = <<>>

\* stylize_all_variations is called
StylizeAllVariations(package, styles_to_apply, dir, prior) ==
    /\ stylizing = "idle"
    /\ styled_package' = package
    \* the number of style applications the call makes
    /\ Cardinality({i \in DOMAIN package :
                       GetBestImagePath(package[i]) # NoPath})
         * Len(SelectedStyles(styles_to_apply)) <= MaxStyles
    /\ output_dir' = dir
    /\ selected_styles' = SelectedStyles(styles_to_apply)
    /\ disk' = prior
    /\ Proceed(package, SelectedStyles(styles_to_apply), <<>>)
    /\ UNCHANGED stylization_results
    /\ UNCHANGED <<vaVars, abVars, szVars, mainVars, segVars, apiVars>>

\* the key of the variation being stylized
CurrentKey == Head(variation_queue).key

\* lines 183-200: gather returned the results of the batch; the records are
\* appended, then comes the pause before the next batch or, after the last
\* batch, the return to the loop over the variations
BatchGathered(k, results, records) ==
    IF batch_start + BatchSize < Len(selected_styles)
    THEN /\ job' = [job EXCEPT ![k] = "done"]
         /\ batch_results' = results
         /\ stylized_results' = stylized_results \o records
         /\ batch_pc' = "sleep"
         /\ UNCHANGED <<stylizing, variation_queue, batch_start,
                        stylization_results>>
    ELSE /\ stylization_results' =
              \* lines 129-133: the entry of the variation
              Put(stylization_results, CurrentKey,
                  [original_variation |-> Head(variation_queue).name,
                   source_image |-> GetBestImagePath(Head(variation_queue)),
                   stylized_images |-> stylized_results \o records])
         /\ Proceed(Tail(variation_queue), selected_styles, results)

\* _stylize_single_image of the k-th style ends with result; gather returns
\* once every task of the batch has ended
SingleStylized(k, result) ==
    IF \A j \in DOMAIN job : (j # k /\ BatchAt(j) = batch_start)
                                => job[j] = "done"
    THEN BatchGathered(k, [batch_results EXCEPT ![k] = result],
                        Collected(selected_styles,
                                  [batch_results EXCEPT ![k] = result],
                                  batch_start))
    ELSE /\ job' = [job EXCEPT ![k] = "done"]
         /\ batch_results' = [batch_results EXCEPT ![k] = result]
         /\ UNCHANGED <<stylizing, variation_queue, batch_pc, batch_start,
                        stylized_results, stylization_results>>

\* _stylize_single_image: one running style application ends: the file is
\* written, with the image or with the empty payload the download gave; or
\* an exception is raised before any file operation (model run,
\* non-URL output, HTTP status, read); or one is raised after the existing
\* file was removed (open or write failed)
StylizeSingleImage ==
    /\ stylizing = "running" /\ batch_pc = "gather"
    /\ \E k \in DOMAIN job, outcome \in {"ok", "empty", "error", "write_error"} :
          /\ job[k] = "running"
          /\ outcome = "empty"
             => Cardinality({path \in DOMAIN disk : disk[path] = "empty"})
                   < MaxEmpty
          \* lines 266 and 283-296: the file operations; the payload read
          \* from the download is written whatever its length
          /\ disk' =
                IF outcome \in {"ok", "empty"}
                THEN Put(disk,
                         OutputPath(output_dir, CurrentKey, selected_styles[k]),
                         IF outcome = "ok" THEN "new" ELSE "empty")
                ELSE IF outcome = "write_error"
                THEN [x \in (DOMAIN disk)
                               \ {OutputPath(output_dir, CurrentKey,
                                             selected_styles[k])} |-> disk[x]]
                ELSE disk
          /\ SingleStylized(k, StylizeResult(output_dir, CurrentKey,
                                              selected_styles[k], outcome))
    /\ UNCHANGED <<styled_package, output_dir, selected_styles>>
    /\ UNCHANGED <<vaVars, abVars, szVars, mainVars, segVars, apiVars>>

\* lines 197-198 and 168-181: the pause between two batches ends and the
\* tasks of the next batch are created and gathered
ApplyStylesToImage ==
    /\ stylizing = "running" /\ batch_pc = "sleep"
    /\ batch_start' = batch_start + BatchSize
    /\ job' = Gathering(selected_styles, batch_start + BatchSize)
    /\ batch_pc' = "gather"
    /\ UNCHANGED <<stylizing, styled_package, output_dir, selected_styles,
                   variation_queue, batch_results, stylized_results, stylization_results, disk>>
    /\ UNCHANGED <<vaVars, abVars, szVars, mainVars, segVars, apiVars>>

\* the stylizer
StyleNext ==
    \/ \E package \in StylePackages, styles_to_apply \in StyleRequests,
          dir \in OutputDirs :
          \E prior \in {<<>>, PriorArtifacts(dir, VariationKey("1"))} :
             StylizeAllVariations(package, styles_to_apply, dir, prior)
    \/ StylizeSingleImage
    \/ ApplyStylesToImage

-----------------------------------------------------------------------------
(* ABTestGenerator._get_optimal_generation_size *)

\* line 757: the dimensions assumed when the screenshot cannot be read
DefaultSize == <<1365, 768>>

\* a tall page whose aspect ratio, 0.8335, is midway between the ratio of the
\* square option and the ratio of the portrait option
TallPage == <<1667, 2000>>

\* lines 764-770: the sizes of the image model in the order of the dict, the
\* ratio in thousandths
AvailableSizes ==
    << [name |-> "1536x1024", ratio |-> 1500],
       [name |-> "1024x1024", ratio |-> 1000],
       [name |-> "1024x1536", ratio |-> 667] >>

\* abs(aspect_ratio - ratio), in thousandths of original_height
RatioDiff(original_width, original_height, ratio) ==
    IF 1000 * original_width < ratio * original_height
    THEN ratio * original_height - 1000 * original_width
    ELSE 1000 * original_width - ratio * original_height

\* lines 785-792: the loop keeps the first size of the smallest difference;
\* best_diff below zero stands for float('inf')
RECURSIVE ClosestSize(_, _, _, _, _)
ClosestSize(sizes, original_width, original_height, best_size, best_diff) ==
    IF sizes = <<>> THEN best_size
    ELSE IF \/ best_diff < 0
            \/ RatioDiff(original_width, original_height, Head(sizes).ratio)
                  < best_diff
         THEN ClosestSize(Tail(sizes), original_width, original_height,
                          Head(sizes).name,
                          RatioDiff(original_width, original_height,
                                    Head(sizes).ratio))
    ELSE ClosestSize(Tail(sizes), original_width, original_height,
                     best_size, best_diff)

\* a rule that takes the closest aspect ratio for every screenshot
GetOptimalGenerationSize_closest(original_width, original_height) ==
    ClosestSize(AvailableSizes, original_width, original_height,
                "1024x1024", 0 - 1)

\* a rule that gives the portrait option to every screenshot taller than wide
GetOptimalGenerationSize_taller(original_width, original_height) ==
    IF original_width > original_height THEN "1536x1024"
    ELSE IF original_width = original_height THEN "1024x1024"
    ELSE "1024x1536"

\* lines 759-798
GetOptimalGenerationSize(original_width, original_height) ==
    IF original_width > original_height THEN "1536x1024"
    ELSE ClosestSize(AvailableSizes, original_width, original_height,
                     "1024x1024", 0 - 1)

SizeInit ==
    /\ original_size = <<>>
    /\ optimal_size = ""
    /\ regeneration_size = ""

\* lines 749-757 and 471-472: _get_screenshot_dimensions returns the size of
\* the screenshot, or the default one when it cannot be read
GetScreenshotDimensions ==
    /\ original_size = <<>>
    /\ \E readable \in BOOLEAN,
          w, h \in (1..MaxDim) \cup {DefaultSize[1], DefaultSize[2],
                                      TallPage[1], TallPage[2]} :
          original_size' = IF readable THEN <<w, h>> ELSE DefaultSize
    /\ UNCHANGED <<optimal_size, regeneration_size>>
    /\ UNCHANGED <<vaVars, abVars, stVars, mainVars, segVars, apiVars>>

\* lines 473-474: the size of the generation is chosen
ChooseGenerationSize ==
    /\ original_size # <<>>
    /\ optimal_size = ""
    /\ optimal_size' =
         GetOptimalGenerationSize(original_size[1], original_size[2])
    /\ UNCHANGED <<original_size, regeneration_size>>
    /\ UNCHANGED <<vaVars, abVars, stVars, mainVars, segVars, apiVars>>

\* _regenerate_with_feedback, lines 676-684: the regeneration of the image
\* first generated issues its images.edit with the size written in the call
RegenerationEdit ==
    /\ optimal_size # ""
    /\ regeneration_size = ""
    /\ regeneration_size' = "1024x1024"
    /\ UNCHANGED <<original_size, optimal_size>>
    /\ UNCHANGED <<vaVars, abVars, stVars, mainVars, segVars, apiVars>>

\* the sizing of the image generations of one variation
SizeNext ==
    \/ GetScreenshotDimensions
    \/ ChooseGenerationSize
    \/ RegenerationEdit

-----------------------------------------------------------------------------
(* The programs: main.py (command line) and api.py (web application) *)

\* a validation that accepts a missing key
Validate_accepts_missing(key) == "valid"

\* Config.validate (config.py lines 13-17)
Validate(key) == IF key = "" THEN "ValueError" ELSE "valid"

\* VisionAnalyzer.__init__ (lines 12-16): the configuration is validated
\* before the client is created
VisionAnalyzerInit(key) ==
    IF Validate(key) = "ValueError" THEN "ValueError" ELSE "constructed"

\* where the program goes when a website analysis ended: main returns 0 or
\* 1 (lines 243-250), run_analysis stores the outcome and the application
\* goes on serving (api.py lines 409-423)
Ended(prog, ok) ==
    IF prog = "api.py" THEN "serving"
    ELSE IF ok THEN "return 0" ELSE "return 1"

MainInit ==
    /\ program = ""
    /\ OPENAI_API_KEY = ""
    /\ analyzer = "none"
    /\ main_pc = "shell"
    /\ include_mobile = FALSE
    /\ multi_stage = TRUE
    /\ captures = 0

\* main.py is run with the key of its environment and its arguments: main()
\* up to the call of analyze_website (lines 212-237), which calls
\* VisionAnalyzer.analyze_website (lines 60-64)
Main(key, args) ==
    /\ main_pc = "shell"
    /\ program' = "main.py"
    /\ OPENAI_API_KEY' = key
    /\ include_mobile' = args.mobile
    /\ multi_stage' = ~args.no_multi_stage
    /\ IF Validate(key) = "ValueError"
       THEN main_pc' = "return 1" /\ analyzer' = "none"
       ELSE IF args.validate_config
       THEN main_pc' = "return 0" /\ analyzer' = "none"
       ELSE /\ analyzer' = VisionAnalyzerInit(key)
            /\ main_pc' = IF VisionAnalyzerInit(key) = "constructed"
                          THEN "capture" ELSE "ValueError"
    /\ UNCHANGED captures
    /\ UNCHANGED <<vaVars, abVars, stVars, szVars, segVars, apiVars>>

\* api.py is imported by the server: the global analyzer is constructed
\* (api.py lines 33-34); an exception of the constructor ends the import
ImportApi(key) ==
    /\ main_pc = "shell"
    /\ program' = "api.py"
    /\ OPENAI_API_KEY' = key
    /\ analyzer' = VisionAnalyzerInit(key)
    /\ main_pc' = IF VisionAnalyzerInit(key) = "constructed"
                  THEN "serving" ELSE "ValueError"
    /\ UNCHANGED <<include_mobile, multi_stage, captures>>
    /\ UNCHANGED <<vaVars, abVars, stVars, szVars, segVars, apiVars>>

\* run_analysis (api.py lines 383-398): the background task of a request
\* calls analyze_website of the global analyzer
RunAnalysis(mobile, multi) ==
    /\ main_pc = "serving"
    /\ captures < MaxRequests
    /\ include_mobile' = mobile
    /\ multi_stage' = multi
    /\ main_pc' = "capture"
    /\ UNCHANGED <<program, OPENAI_API_KEY, analyzer, captures>>
    /\ UNCHANGED <<vaVars, abVars, stVars, szVars, segVars, apiVars>>

\* VisionAnalyzer.analyze_website, lines 482-521: the capture of the page
\* resolves; an exception of the capture leaves analyze_website, otherwise
\* analyze_screenshot(screenshot) is called for the desktop view, with the
\* default use_multi_stage = True and no custom prompt
CaptureWebsite(captured) ==
    /\ main_pc = "capture"
    /\ captures' = captures + 1
    /\ IF captured
       THEN /\ main_pc' = "desktop"
            /\ EnterAnalysis("multi", "desktop")
       ELSE /\ main_pc' = Ended(program, FALSE)
            /\ UNCHANGED vaVars
    /\ UNCHANGED <<program, OPENAI_API_KEY, analyzer, include_mobile,
                   multi_stage>>
    /\ UNCHANGED <<abVars, stVars, szVars, segVars, apiVars>>

\* VisionAnalyzer.analyze_website, lines 495-528: the awaited
\* analyze_screenshot ended; its exception leaves analyze_website, with
\* include_mobile the mobile view is analysed after the desktop view
AnalyzeWebsite ==
    /\ main_pc \in {"desktop", "mobile"}
    /\ stage = "idle"
    /\ IF ret.kind = "raised"
       THEN /\ main_pc' = Ended(program, FALSE)
            /\ UNCHANGED vaVars
       ELSE IF main_pc = "desktop" /\ include_mobile
       THEN /\ main_pc' = "mobile"
            /\ EnterAnalysis("multi", "mobile")
       ELSE /\ main_pc' = Ended(program, TRUE)
            /\ UNCHANGED vaVars
    /\ UNCHANGED <<program, OPENAI_API_KEY, analyzer, include_mobile,
                   multi_stage, captures>>
    /\ UNCHANGED <<abVars, stVars, szVars, segVars, apiVars>>

\* a program from its start, with the model calls of its analyses
MainNext ==
    \/ \E key \in {"", "sk"},
          args \in [mobile : BOOLEAN, no_multi_stage : BOOLEAN,
                    validate_config : BOOLEAN] :
          Main(key, args)
    \/ \E key \in {"", "sk"} : ImportApi(key)
    \/ \E mobile \in BOOLEAN, multi \in BOOLEAN : RunAnalysis(mobile, multi)
    \/ \E captured \in BOOLEAN : CaptureWebsite(captured)
    \/ AnalyzeWebsite
    \/ AnalyzeCategory(StageResponses)
    \/ RunFocusedAnalyses
    \/ SynthesizeAnalysis(StageResponses)
    \/ ValidateAnalysis(StageResponses)

-----------------------------------------------------------------------------
(* ComponentSegmenter.segment_and_analyze (src/component_segmenter.py) *)

\* the pages segmented
Urls == {"https://a.example", "https://b.example"}

\* lines 56-80: the segments _capture_scroll_segments returns, the scroll
\* position in hundredths; capture_with_scroll, which gives the path of the
\* screenshot, is called here and defined nowhere in src/
ScrollSegments ==
    [i \in 1..4 |->
        [segment_id |-> <<"segment", i, <<"top", "quarter", "half", "bottom">>[i]>>,
         scroll_position |-> <<0, 25, 50, 75>>[i],
         screenshot_path |-> <<"screenshots", i>>]]

\* lines 132-139: what _analyze_single_segment returns for the analysis
\* analyze_screenshot gave it
SegmentAnalysis(segment, analysis) ==
    [segment_info |-> [id |-> segment.segment_id,
                       scroll_position |-> segment.scroll_position],
     components |-> analysis,
     screenshot_path |-> segment.screenshot_path]

\* lines 96-104: the analyses kept of the results of gather, one per task
\* that returned
AnalyzedSegments(segments, results) ==
    [id \in {segments[i].segment_id :
                i \in {j \in DOMAIN segments : results[j].kind = "returned"}}
        |-> LET i == CHOOSE j \in DOMAIN segments : segments[j].segment_id = id
            IN  SegmentAnalysis(segments[i], results[i].result)]

\* lines 206-239 and 241-258: _create_component_map; analyses.get of a
\* segment without analysis gives the empty dict
CreateComponentMap(url, segments, analyses, react_code) ==
    [metadata |-> [url |-> url, total_segments |-> Len(segments),
                   analysis_type |-> "component_segmentation"],
     segments |->
        [id \in {segments[i].segment_id : i \in DOMAIN segments} |->
            LET segment == segments[CHOOSE i \in DOMAIN segments :
                                       segments[i].segment_id = id]
            IN  [scroll_position |-> segment.scroll_position,
                 screenshot_path |-> segment.screenshot_path,
                 analysis |-> IF id \in DOMAIN analyses THEN analyses[id]
                              ELSE <<>>,
                 react_code_key |-> id]],
     react_components |-> react_code,
     component_hierarchy |->
        [content |->
            {[segment_id |-> id, components |-> analyses[id].components] :
                id \in DOMAIN analyses}]]

SegInit ==
    /\ segmenting = "idle"
    /\ page_url = ""
    /\ vision_analyzer_merge = <<>>
    /\ scroll_segments = <<>>
    /\ segment_task = <<>>
    /\ component_analyses = <<>>
    /\ react_queue = <<>>
    /\ react_components = <<>>
    /\ component_map = <<>>

\* lines 147-180 and 44-50: the loop of _generate_react_code goes on with
\* queue; after the last segment the component map is created and returned
GenerateNext(url, analyses, queue, code) ==
    /\ react_queue' = queue
    /\ react_components' = code
    /\ segmenting' = IF queue = <<>> THEN "returned" ELSE "generate"
    /\ component_map' =
          IF queue = <<>>
          THEN CreateComponentMap(url, scroll_segments, analyses, code)
          ELSE component_map

\* segment_and_analyze is called (lines 26-38): the segments are captured and
\* the analysis tasks are created and gathered (lines 91-96); an exception of
\* the capture leaves segment_and_analyze
SegmentAndAnalyze(url, captured) ==
    /\ segmenting = "idle"
    /\ page_url' = url
    /\ IF captured
       THEN /\ segmenting' = "analyze"
            /\ scroll_segments' = ScrollSegments
            /\ segment_task' = [i \in DOMAIN ScrollSegments |-> NoRet]
       ELSE /\ segmenting' = "raised"
            /\ UNCHANGED <<scroll_segments, segment_task>>
    /\ UNCHANGED <<vision_analyzer_merge, component_analyses, react_queue,
                   react_components, component_map>>
    /\ UNCHANGED <<vaVars, abVars, stVars, szVars, mainVars, apiVars>>

\* the model call of the i-th segment ends and its task with it (lines
\* 108-139): analyze_screenshot of the analyzer the segments share returns
\* the merge of the response, which it stores (vision_analyzer.py line 332),
\* or the response parsed without a merge, or, the call having raised, goes
\* through its except clause (vision_analyzer.py lines 43-48).  Once every
\* task has ended gather returns, the analyses are collected (lines 96-106)
\* and _generate_react_code starts on them
AnalyzeSingleSegment(i, api) ==
    /\ segmenting = "analyze"
    /\ i \in DOMAIN segment_task
    /\ segment_task[i].kind = "none"
    /\ vision_analyzer_merge' =
          IF api = "merged" THEN <<"merge", i>> ELSE vision_analyzer_merge
    /\ segment_task' =
          [segment_task EXCEPT ![i] =
              IF api = "merged"
              THEN Returned([form |-> "merged", value |-> <<"merge", i>>])
              ELSE IF api = "parsed"
              THEN Returned([form |-> "parsed", value |-> <<"text", i>>])
              ELSE Except("APIError", vision_analyzer_merge,
                          vision_analyzer_merge # <<>>)]
    /\ IF \A j \in DOMAIN segment_task : j # i => segment_task[j].kind # "none"
       THEN /\ component_analyses' =
                  AnalyzedSegments(scroll_segments, segment_task')
            /\ GenerateNext(page_url,
                            component_analyses',
                            SelectSeq([j \in DOMAIN scroll_segments |->
                                          scroll_segments[j].segment_id],
                                      LAMBDA id :
                                         id \in DOMAIN component_analyses'),
                            <<>>)
       ELSE UNCHANGED <<segmenting, component_analyses, react_queue,
                        react_components, component_map>>
    /\ UNCHANGED <<page_url, scroll_segments>>
    /\ UNCHANGED <<vaVars, abVars, stVars, szVars, mainVars, apiVars>>

\* the model call of _generate_react_code for the next analysed segment
\* ends (lines 177-178): its code is stored, or its exception leaves
\* segment_and_analyze
GenerateReactCode(generated) ==
    /\ segmenting = "generate"
    /\ IF generated
       THEN GenerateNext(page_url, component_analyses,
                         Tail(react_queue),
                         Put(react_components, Head(react_queue),
                             <<"tsx", Head(react_queue)>>))
       ELSE /\ segmenting' = "raised"
            /\ UNCHANGED <<react_queue, react_components, component_map>>
    /\ UNCHANGED <<page_url, vision_analyzer_merge, scroll_segments,
                   segment_task, component_analyses>>
    /\ UNCHANGED <<vaVars, abVars, stVars, szVars, mainVars, apiVars>>

\* one call of the segmenter
SegNext ==
    \/ \E url \in Urls, captured \in BOOLEAN : SegmentAndAnalyze(url, captured)
    \/ \E i \in 1..4, api \in {"merged", "parsed", "error"} :
          AnalyzeSingleSegment(i, api)
    \/ \E generated \in BOOLEAN : GenerateReactCode(generated)

-----------------------------------------------------------------------------
(* The analysis records of api.py *)

ApiInit ==
    /\ analysis_storage = <<>>
    /\ background = <<>>
    /\ results_files = {}
    /\ download = <<>>

\* start_analysis (lines 319-346): the record is created and stored and the
\* background task is scheduled; analysis ids are the moments of the
\* requests, an Optional field that is None is the empty tuple
StartAnalysis(url) ==
    /\ Cardinality(DOMAIN analysis_storage) < MaxAnalyses
    /\ analysis_storage' =
          Put(analysis_storage, Cardinality(DOMAIN analysis_storage) + 1,
              [analysis_id |-> Cardinality(DOMAIN analysis_storage) + 1,
               status |-> "processing", url |-> url, completed_at |-> <<>>,
               results |-> <<>>, error |-> <<>>])
    /\ background' =
          Put(background, Cardinality(DOMAIN analysis_storage) + 1,
              "analyze_website")
    /\ UNCHANGED <<results_files, download>>
    /\ UNCHANGED <<vaVars, abVars, stVars, szVars, mainVars, segVars>>

\* run_analysis (lines 383-412 and 419-423): analyze_website returned and the
\* record is updated with the results, the file still to be written; or it
\* raised and the record is updated with the error
UpdateStorage(analysis_id, analysed) ==
    /\ analysis_id \in DOMAIN background
    /\ background[analysis_id] = "analyze_website"
    /\ IF analysed
       THEN /\ analysis_storage' =
                  [analysis_storage EXCEPT
                      ![analysis_id].status = "completed",
                      ![analysis_id].completed_at = <<"now">>,
                      ![analysis_id].results = <<"results", analysis_id>>]
            /\ background' = [background EXCEPT ![analysis_id] = "write"]
       ELSE /\ analysis_storage' =
                  [analysis_storage EXCEPT
                      ![analysis_id].status = "failed",
                      ![analysis_id].error = <<"AnalysisError">>,
                      ![analysis_id].completed_at = <<"now">>]
            /\ background' = [background EXCEPT ![analysis_id] = "ended"]
    /\ UNCHANGED <<results_files, download>>
    /\ UNCHANGED <<vaVars, abVars, stVars, szVars, mainVars, segVars>>

\* run_analysis (lines 414-423): the results file is written and the task
\* ends; or opening or writing it raises and the except clause updates the
\* record with the error
SaveToFile(analysis_id, saved) ==
    /\ analysis_id \in DOMAIN background
    /\ background[analysis_id] = "write"
    /\ background' = [background EXCEPT ![analysis_id] = "ended"]
    /\ IF saved
       THEN /\ results_files' = results_files \cup {analysis_id}
            /\ UNCHANGED analysis_storage
       ELSE /\ analysis_storage' =
                  [analysis_storage EXCEPT
                      ![analysis_id].status = "failed",
                      ![analysis_id].error = <<"OSError">>,
                      ![analysis_id].completed_at = <<"now">>]
            /\ UNCHANGED results_files
    /\ UNCHANGED download
    /\ UNCHANGED <<vaVars, abVars, stVars, szVars, mainVars, segVars>>

\* download_analysis_results (lines 357-381): 404 for an unknown id, 400 for
\* a record that is not completed, else the file, created from the stored
\* results when it is not there
DownloadAnalysisResults(analysis_id) ==
    /\ IF analysis_id \notin DOMAIN analysis_storage
       THEN /\ download' = [analysis_id |-> analysis_id, status_code |-> 404,
                            content |-> <<>>]
            /\ UNCHANGED results_files
       ELSE IF analysis_storage[analysis_id].status # "completed"
       THEN /\ download' = [analysis_id |-> analysis_id, status_code |-> 400,
                            content |-> <<>>]
            /\ UNCHANGED results_files
       ELSE /\ download' = [analysis_id |-> analysis_id, status_code |-> 200,
                            content |-> analysis_storage[analysis_id].results]
            /\ results_files' = results_files \cup {analysis_id}
    /\ UNCHANGED <<analysis_storage, background>>
    /\ UNCHANGED <<vaVars, abVars, stVars, szVars, mainVars, segVars>>

\* the web application serving analysis requests
ApiNext ==
    \/ \E url \in Urls : StartAnalysis(url)
    \/ \E analysis_id \in 1..MaxAnalyses, analysed \in BOOLEAN :
          UpdateStorage(analysis_id, analysed)
    \/ \E analysis_id \in 1..MaxAnalyses, saved \in BOOLEAN :
          SaveToFile(analysis_id, saved)
    \/ \E analysis_id \in 1..(MaxAnalyses + 1) :
          DownloadAnalysisResults(analysis_id)

-----------------------------------------------------------------------------
(* Specifications *)

Init ==
    /\ VAInit /\ ABInit /\ StyleInit /\ SizeInit /\ MainInit
    /\ SegInit /\ ApiInit

\* the analysis engine, all modes
SpecVA == Init /\ [][VANext]_vars

\* one engine instance parsing the responses of single-call analyses
SpecParse == Init /\ [][ParseNext]_vars

\* one run of the variation generator
SpecAB == Init /\ [][ABNext]_vars

\* one call of the stylizer
SpecStyle == Init /\ [][StyleNext]_vars

\* the sizing of one image generation
SpecSize == Init /\ [][SizeNext]_vars

\* the command line and the web application
SpecMain == Init /\ [][MainNext]_vars

\* one call of the component segmenter
SpecSeg == Init /\ [][SegNext]_vars

\* the analysis records of the web application
SpecApi == Init /\ [][ApiNext]_vars

-----------------------------------------------------------------------------
(* Properties of the analysis engine *)

\* C1: whatever the number of fenced blocks of a response and whatever the
\* chunk history, the result of the merge step is a mapping whose key set is
\* exactly the set of canonical categories.
MergeResultHasCanonicalKeys ==
    /\ \A i \in 1..Len(merge_calls) :
          ~merge_calls[i].raised => DOMAIN merge_calls[i].merged = SchemaKeys
    /\ has_last_successful_merge => DOMAIN last_successful_merge = SchemaKeys

\* a response with two fenced blocks was merged over an existing history
MergedTwoBlocksOverHistory ==
    \E i \in 2..Len(merge_calls) :
        /\ Len(merge_calls[i].new) >= 2
        /\ ~merge_calls[i].raised
        /\ DOMAIN merge_calls[i].merged = SchemaKeys

\* C2: every value analyze_screenshot returns, in any mode and through any
\* parse path, contains every canonical category key, the categories nothing
\* populated holding the placeholder.
ReturnedValueCoversSchema ==
    ret.kind = "returned" =>
        /\ SchemaKeys \subseteq DOMAIN ret.result.value
        /\ \A k \in SchemaKeys :
              ret.result.value[k].kind \in
                 {"typography", "colors", "layout", "buttons", "raw",
                  Placeholder(k).kind}

\* C3: when a stage raised and a merge had succeeded in this instance,
\* analyze_screenshot returned the last successful merge and did not raise.
FailureReturnsLastMerge ==
    (ret.caught # "" /\ has_last_successful_merge) =>
        /\ ret.kind = "returned"
        /\ ret.result = [form |-> "merged", value |-> last_successful_merge]
        /\ ret.error = <<>>

\* a stage failed to parse its response after an earlier merge, and the call
\* returned that merge
RecoveredAfterParseError ==
    /\ ret.caught = "ValueError"
    /\ has_last_successful_merge
    /\ ret.kind = "returned"

\* C4: when a stage raised and no merge ever succeeded in this instance,
\* analyze_screenshot raised an error carrying the cause and returned nothing.
FailureWithoutMergeRaises ==
    (ret.caught # "" /\ ~has_last_successful_merge) =>
        /\ ret.kind = "raised"
        /\ ret.error = <<"Vision analysis failed", ret.caught>>
        /\ ret.result = NoResult

\* the model call of an analysis raised in an instance without any merge
RaisedWithoutMerge ==
    /\ ret.kind = "raised"
    /\ ret.caught = "APIError"
    /\ ~has_last_successful_merge

\* the position in a chunk list of the last chunk that populates a category
Populates(chunk, key) ==
    \E a \in 1..Len(ChunkAssignments(chunk)) : ChunkAssignments(chunk)[a].key = key

ValueFrom(chunk, key) ==
    ChunkAssignments(chunk)[CHOOSE a \in 1..Len(ChunkAssignments(chunk)) :
                               ChunkAssignments(chunk)[a].key = key].r.val

LastPopulating(chunks, key) ==
    CHOOSE i \in 1..Len(chunks) :
        /\ Populates(chunks[i], key)
        /\ \A j \in (i + 1)..Len(chunks) : ~Populates(chunks[j], key)

LastWins(chunks) ==
    [key \in SchemaKeys |->
        IF \E i \in 1..Len(chunks) : Populates(chunks[i], key)
        THEN ValueFrom(chunks[LastPopulating(chunks, key)], key)
        ELSE Placeholder(key)]

\* C5: merging is idempotent: the same chunks merged twice in a row give the
\* same result both times, and the result is determined by the chunk history
\* alone: per category, the value mapped from the last chunk populating it.
MergeIsIdempotent ==
    /\ \A i \in 1..(Len(merge_calls) - 1) :
          merge_calls[i].new = merge_calls[i + 1].new =>
              /\ merge_calls[i].raised = merge_calls[i + 1].raised
              /\ merge_calls[i].merged = merge_calls[i + 1].merged
    /\ \A i \in 1..Len(merge_calls) :
          ~merge_calls[i].raised =>
              merge_calls[i].merged = LastWins(merge_calls[i].accumulated)

\* the same two chunks were merged twice in a row, over an earlier history
MergedSameChunksTwice ==
    \E i \in 1..(Len(merge_calls) - 1) :
        /\ merge_calls[i].new = merge_calls[i + 1].new
        /\ ~merge_calls[i + 1].raised
        /\ Len(merge_calls[i + 1].accumulated) > 2 * Len(merge_calls[i].new)

\* the focused pass left every succeeded category in its results and no
\* failed one
FocusedResultsAreTheSuccesses ==
    \A c \in CategorySet :
        /\ focused_status[c] = "ok" <=> c \in DOMAIN focused_analyses
        /\ focused_status[c] = "failed" => c \notin DOMAIN focused_analyses

StagesHaveTheirInputs ==
    /\ stage \in {"synthesis", "validation"}
       => \A c \in CategorySet : focused_status[c] # "pending"
    /\ stage = "validation" => comprehensive_analysis # NoResult

\* C20: in multi-stage analysis the synthesis call is issued only after all
\* four focused calls have resolved, the validation call only after the
\* synthesis call has returned, with its parse result, and the value returned
\* is the parse result of the validation pass.
StagesAreSequential ==
    /\ []StagesHaveTheirInputs
    /\ [][/\ (stage # "synthesis" /\ stage' = "synthesis")
             => /\ stage = "multi"
                /\ \A c \in CategorySet : focused_status[c] # "pending"
          /\ (stage # "validation" /\ stage' = "validation")
             => /\ stage = "synthesis"
                /\ \E o \in Outcomes(StageResponses) :
                      /\ Resolve(o).outcome # "error"
                      /\ comprehensive_analysis' = Resolve(o).result
          /\ (stage \in {"multi", "synthesis", "validation"} /\ ret' # ret)
             => /\ stage' = "idle"
                /\ ret'.caught = ""
                   => /\ stage = "validation"
                      /\ \E o \in Outcomes(StageResponses) :
                            /\ Resolve(o).outcome # "error"
                            /\ ret' = Returned(Resolve(o).result)]_vars

\* a multi-stage call returned the parse result of its validation pass
MultiStageReturnedValidation ==
    /\ stage = "idle"
    /\ ret.kind = "returned" /\ ret.caught = ""
    /\ comprehensive_analysis # NoResult
    /\ \A c \in CategorySet : focused_status[c] # "pending"

\* the chunk history before the i-th merge call of the instance
HistoryBefore(i) == IF i = 1 THEN <<>> ELSE merge_calls[i - 1].accumulated

\* C26: the chunk history is additive-only: after a merge call with new
\* chunks c the session history is the previous history followed by exactly
\* c, so no chunk is removed, reordered or duplicated.
HistoryIsAppendedOnce ==
    \A i \in 1..Len(merge_calls) :
        merge_calls[i].accumulated = HistoryBefore(i) \o merge_calls[i].new

\* some chunk of the list populates the category
PopulatedBy(chunks, key) ==
    \E j \in 1..Len(chunks) : Populates(chunks[j], key)

\* C27: when several chunks populate the same canonical category, the merged
\* value of the category is the one mapped from the latest such chunk, the
\* session history taken first and then the chunks of the current response in
\* order of appearance; a category populated by a chunk of the history is
\* never reset to the placeholder by a later merge.
LatestChunkWins ==
    \A i \in 1..Len(merge_calls) :
        ~merge_calls[i].raised =>
            /\ merge_calls[i].merged
                  = LastWins(HistoryBefore(i) \o merge_calls[i].new)
            /\ \A key \in SchemaKeys :
                  PopulatedBy(HistoryBefore(i), key)
                     => merge_calls[i].merged[key] # Placeholder(key)

\* a response populated a category that the history had populated with
\* another value, and the merge holds the value of the response
OverwroteCategoryOfHistory ==
    \E i \in 2..Len(merge_calls), key \in SchemaKeys :
        /\ ~merge_calls[i].raised
        /\ PopulatedBy(HistoryBefore(i), key)
        /\ PopulatedBy(merge_calls[i].new, key)
        /\ LastWins(HistoryBefore(i))[key] # LastWins(merge_calls[i].new)[key]
        /\ merge_calls[i].merged[key] = LastWins(merge_calls[i].new)[key]

\* the tokens of a text from its first { to its last }, <<>> without both
Span(text) ==
    IF \E i, j \in 1..Len(text) : text[i] = LBRACE /\ text[j] = RBRACE
    THEN SubSeq(text,
                CHOOSE i \in 1..Len(text) :
                   text[i] = LBRACE /\ \A k \in 1..(i - 1) : text[k] # LBRACE,
                CHOOSE j \in 1..Len(text) :
                   text[j] = RBRACE
                   /\ \A k \in (j + 1)..Len(text) : text[k] # RBRACE)
    ELSE <<>>

\* what the parse p of a text without fenced block has to be
ParsedFromSpan(text, p) ==
    /\ p.eng = CurrentEngine
    /\ p.merge = <<>>
    /\ IF IsObjectText(Span(text))
       THEN /\ p.outcome = "raw"
            /\ p.result = [form |-> "raw", value |-> ObjectOf(Span(text))]
       ELSE /\ p.outcome = "error"
            /\ p.result = NoResult

\* C30: a response with zero fenced blocks is parsed from the span between
\* its first { and its last }; without such a span, or with a span that is not
\* valid JSON, a parse error is raised to the caller; in both cases the
\* last successful merge and the chunk history are left unchanged.
UnfencedResponseIsParsedFromSpan ==
    /\ [](\A text \in AllResponses :
             (\A i \in 1..Len(text) : text[i] # FENCE_JSON)
                => ParsedFromSpan(text, ParseResponse(text, CurrentEngine)))
    /\ [][(stage = "single" /\ stage' = "idle" /\ merge_calls' = merge_calls)
            => /\ accumulated_chunks' = accumulated_chunks
               /\ has_accumulated_chunks' = has_accumulated_chunks
               /\ last_successful_merge' = last_successful_merge
               /\ has_last_successful_merge' = has_last_successful_merge
               /\ ret'.caught = "" => ret'.result.form = "raw"]_vars

\* in an instance that holds a merge, a response without fenced block was
\* parsed from its brace span and returned as parsed
ReturnedBraceSpanAfterMerge ==
    /\ ret.kind = "returned" /\ ret.caught = ""
    /\ ret.result.form = "raw"
    /\ has_last_successful_merge
    /\ ret.result.value # last_successful_merge

\* C28: the result of the focused pass, the mapping from category to analysis
\* handed to the synthesis, does not depend on the order in which the
\* concurrent focused calls complete: the analysis a category gets from its
\* response is the one it gets when its call is the first to complete.
FocusedResultIgnoresCompletionOrder ==
    (stage = "multi" /\ last_resolved # <<>>) =>
        LET c == last_resolved[1].category
            first == ResolveIn(last_resolved[1].o, engine_at_call)
        IN IF first.outcome = "error" THEN c \notin DOMAIN focused_analyses
           ELSE /\ c \in DOMAIN focused_analyses
                /\ focused_analyses[c] = first.result

\* C29: a result analyze_screenshot returns for one image is derived only
\* from model responses for that image: when the analyses of several images
\* share one engine instance, a failure for one image never returns merge
\* data obtained for another image.
RecoveredMergeIsOfTheSameImage ==
    (ret.kind = "returned" /\ ret.caught # "") =>
        /\ ret.result.value = last_successful_merge
        /\ merge_image = base64_image

-----------------------------------------------------------------------------
(* Properties of the variation generator *)

\* the patterns the run was asked for
Requested == IF selected_pattern = "all" THEN PatternIds ELSE {selected_pattern}

\* the pipeline of p returned its Variation record
Recorded(p) == pc[p] = "returned" /\ VariationKey(p) \in DOMAIN variations

\* the image of the Variation record of p
RecordedImage(p) == variations[VariationKey(p)].generated_image

\* the regeneration of p was attempted and returned an error
RegenerationFailed(p) ==
    improved_image[p].present /\ improved_image[p].error # ""

\* C6: if the quality report of a variation has regeneration_needed = false,
\* no regeneration call is made and the final image of the Variation is
\* exactly the first-generated image (carrying the quality report).
NoRegenerationWhenNotNeeded ==
    \A p \in PatternIds :
        (pc[p] = "returned" /\ quality_check[p].regeneration_needed = "false")
        => /\ calls[p]["regenerate"] = 0
           /\ ~improved_image[p].present
           /\ VariationKey(p) \in DOMAIN variations
           /\ RecordedImage(p) = Tagged(first_generated[p], quality_check[p])
           /\ RecordedImage(p).local_path = first_generated[p].local_path

\* a pipeline returned whose report lists issues but does not ask for a
\* regeneration
ReturnedWithIssuesNotRegenerated ==
    \E p \in PatternIds :
        /\ Recorded(p)
        /\ quality_check[p].has_issues = "true"
        /\ quality_check[p].regeneration_needed = "false"
        /\ RecordedImage(p).local_path = <<"variation", p>>

\* C7: if regeneration_needed is true and the regeneration succeeds, the
\* final image of the Variation is the regenerated image, tagged
\* quality_improved = true, and the image is replaced exactly once: one
\* regeneration was made and the first image is left as generated.
RegeneratedImageIsFinal ==
    \A p \in PatternIds :
        (/\ pc[p] = "returned"
         /\ quality_check[p].regeneration_needed = "true"
         /\ improved_image[p].local_path # NoPath
         /\ improved_image[p].error = "")
        => /\ VariationKey(p) \in DOMAIN variations
           /\ RecordedImage(p) = improved_image[p]
           /\ RecordedImage(p).local_path = <<"improved", p>>
           /\ RecordedImage(p).local_path # first_generated[p].local_path
           /\ RecordedImage(p).quality_improved
           /\ RecordedImage(p).quality_check = quality_check[p]
           /\ calls[p]["regenerate"] = 1
           /\ variation_image[p] = first_generated[p]

\* a pipeline returned the image its regeneration produced
ReturnedRegeneratedImage ==
    \E p \in PatternIds :
        /\ Recorded(p)
        /\ quality_check[p].regeneration_needed = "true"
        /\ calls[p]["regenerate"] = 1
        /\ RecordedImage(p).local_path = <<"improved", p>>
        /\ RecordedImage(p).improvements_applied = <<"overflow", "spacing">>

\* C8: if regeneration is attempted and fails (the edit call raises, returns
\* no image data, or the original screenshot is missing), the final image of
\* the Variation is the first-generated image, it is not tagged
\* quality_improved, and the failure is not raised out of the pipeline.
FailedRegenerationKeepsFirstImage ==
    \A p \in PatternIds :
        RegenerationFailed(p)
        => /\ pc[p] = "returned"
           /\ run # "raised"
           /\ VariationKey(p) \in DOMAIN variations
           /\ RecordedImage(p) = Tagged(first_generated[p], quality_check[p])
           /\ RecordedImage(p).local_path = first_generated[p].local_path
           /\ RecordedImage(p).local_path # NoPath
           /\ ~RecordedImage(p).quality_improved

\* in one run the regeneration of one pattern failed by a raising edit call
\* and that of another by a response without image data
TwoRegenerationsFailed ==
    \E p, q \in PatternIds :
        /\ Recorded(p) /\ Recorded(q)
        /\ improved_image[p].error = "APIError"
        /\ improved_image[q].error = "No image data in response"
        /\ RecordedImage(p).local_path = <<"variation", p>>
        /\ RecordedImage(q).local_path = <<"variation", q>>

\* C9: when regeneration is attempted and fails, the failure (its error) is
\* captured in the resulting Variation record alongside the kept original
\* image.
RegenerationFailureIsRecorded ==
    \A p \in PatternIds :
        (Recorded(p) /\ RegenerationFailed(p))
        => improved_image[p].error
              \in {RecordedImage(p).error, RecordedImage(p).quality_check.error}

\* C10: for every requested pattern the run ends with a Variation record,
\* whichever external call of the pipeline of the pattern fails; the failure
\* is reported inside the record rather than raised, and a run for all
\* patterns yields a record for each of them.
EveryRequestedPatternHasRecord ==
    run \in {"returned", "raised"}
    => /\ run = "returned"
       /\ \A p \in Requested : VariationKey(p) \in DOMAIN variations
       /\ ab_test_package.total_variations = Cardinality(Requested)

\* the first image call of p failed: the image step returned an error dict
ImageCallFailed(p) == first_generated[p].present /\ first_generated[p].error # ""

\* the patterns whose record holds an image file
Populated == {p \in PatternIds : Recorded(p) /\ RecordedImage(p).local_path # NoPath}

\* the patterns whose record holds an image-generation error
Errored == {p \in PatternIds : Recorded(p) /\ RecordedImage(p).error # ""}

\* C11: in a run for all patterns, a pattern whose image call failed still has
\* its record, holding the error; every other pattern was run, and those whose
\* own pipeline returned with a generated image have a populated record; with
\* exactly one image call failed and nothing else raised the run returns 4
\* records, 3 populated and 1 with the error.
ImageFailureIsIsolated ==
    (run = "returned" /\ selected_pattern = "all")
    => /\ \A p \in PatternIds :
             ImageCallFailed(p)
             => /\ Recorded(p)
                /\ RecordedImage(p).error = first_generated[p].error
                /\ RecordedImage(p).local_path = NoPath
                /\ \A q \in PatternIds \ {p} :
                      /\ pc[q] \in {"returned", "raised"}
                      /\ (pc[q] = "returned" /\ Usable(first_generated[q]))
                         => q \in Populated
       /\ (/\ Cardinality({p \in PatternIds : ImageCallFailed(p)}) = 1
           /\ \A p \in PatternIds : pc[p] # "raised")
          => /\ ab_test_package.total_variations = 4
             /\ Cardinality(DOMAIN ab_test_package.variations) = 4
             /\ Cardinality(Populated) = 3
             /\ Cardinality(Errored) = 1

\* a run for all patterns returned with the image call of pattern 2 failed and
\* the three other patterns populated
ReturnedWithOneImageFailed ==
    /\ run = "returned" /\ selected_pattern = "all"
    /\ ImageCallFailed("2")
    /\ Errored = {"2"}
    /\ Populated = {"1", "3", "4"}
    /\ ab_test_package.total_variations = 4

\* the pipeline of p is suspended at one of its external calls
InFlight(p) ==
    pc[p] \in {"modify", "react", "image", "text_only", "quality", "regenerate"}

\* C12: in a run for all patterns the 4 pipelines run concurrently, a pipeline
\* starts and has calls in flight before another has finished: by the time
\* one pipeline has ended, every other pipeline has been started.
PipelinesRunConcurrently ==
    selected_pattern = "all"
    => \A p, q \in PatternIds :
          pc[p] \in {"returned", "raised"} => pc[q] # "not_started"

\* C13: for one pattern, regeneration is attempted at most once and only when
\* the quality report has regeneration_needed = true; the quality check runs
\* at most once, a regenerated image is not checked again, and no other step
\* of the pipeline is run a second time.
AtMostOneAttemptPerStep ==
    \A p \in PatternIds :
        /\ \A s \in Steps : calls[p][s] <= 1
        /\ calls[p]["regenerate"] = 1
           => quality_check[p].regeneration_needed = "true"
        /\ improved_image[p].present
           => (calls[p]["quality"] = 1 /\ pc[p] = "returned")

\* a pipeline returned after one quality check and one regeneration
ReturnedAfterOneRegeneration ==
    \E p \in PatternIds :
        /\ pc[p] = "returned"
        /\ improved_image[p].present
        /\ calls[p]["quality"] = 1
        /\ calls[p]["regenerate"] = 1
        /\ quality_check[p].regeneration_needed = "true"

\* the moves of a pipeline from one suspension point to the next: the steps
\* in their order, the image step by edit or by text-only generation, the
\* quality check and the regeneration left out when not due, and the exits
\* of a step that raised
StepEdges ==
    { <<"not_started", "modify">>, <<"modify", "react">>,
      <<"react", "image">>, <<"react", "text_only">>,
      <<"image", "quality">>, <<"text_only", "quality">>,
      <<"quality", "regenerate">>,
      <<"image", "returned">>, <<"text_only", "returned">>,
      <<"quality", "returned">>, <<"regenerate", "returned">>,
      <<"modify", "raised">>, <<"react", "raised">>, <<"quality", "raised">> }

\* a step has been entered only with the output of the step before it
StepsStartAfterPrevious ==
    \A p \in PatternIds :
        /\ \A s \in Steps : calls[p][s] <= 1
        /\ calls[p]["react"] = 1 => modified_components[p].present
        /\ calls[p]["image"] = 1
           => (variation_react_code[p] # "" /\ image_prompt[p].present)
        /\ calls[p]["text_only"] = 1 => calls[p]["image"] = 1
        /\ calls[p]["quality"] = 1 => Usable(first_generated[p])
        /\ calls[p]["regenerate"] = 1 => quality_check[p].present
        /\ pc[p] = "returned"
           => (first_generated[p].present /\ final_image[p].present)
        /\ pc[p] # "not_started" => calls[p]["modify"] = 1

\* C14: the steps of the pipeline of one pattern occur in the order modify
\* structure, draft code, build edit prompt, generate image, quality check,
\* optional regeneration, done: no step starts before the previous one has
\* finished and no step is entered twice.
StepsOccurInOrder ==
    /\ []StepsStartAfterPrevious
    /\ [][\A p \in PatternIds :
            pc'[p] # pc[p] => <<pc[p], pc'[p]>> \in StepEdges]_vars

\* a pipeline returned after going through every step, regeneration included
WentThroughEveryStep ==
    \E p \in PatternIds :
        /\ pc[p] = "returned"
        /\ \A s \in Steps \ {"text_only"} : calls[p][s] = 1
        /\ RecordedImage(p).local_path = <<"improved", p>>

\* C22: the package generate_ab_variations returns has
\* metadata.total_variations equal to the number of records in variations; for
\* one selected pattern p of 1..4 it holds exactly one record, keyed
\* variation_p, and metadata.selected_pattern is p.
PackageCountsItsRecords ==
    ab_test_package.present =>
        /\ run = "returned"
        /\ ab_test_package.variations = variations
        /\ ab_test_package.total_variations
              = Cardinality(DOMAIN ab_test_package.variations)
        /\ selected_pattern \in PatternIds =>
              /\ DOMAIN ab_test_package.variations
                    = {VariationKey(selected_pattern)}
              /\ ab_test_package.variations[VariationKey(selected_pattern)].id
                    = selected_pattern
              /\ ab_test_package.total_variations = 1
              /\ ab_test_package.selected_pattern = selected_pattern

\* a run for pattern 3 returned its package
ReturnedPackageOfPatternThree ==
    /\ ab_test_package.present
    /\ selected_pattern = "3"
    /\ ab_test_package.selected_pattern = "3"
    /\ "variation_3" \in DOMAIN ab_test_package.variations
    /\ ab_test_package.total_variations = 1

\* the quality call raised, or its answer has no content, no brace span, or a
\* span that is not JSON
Unreadable(response) ==
    response.api = "error" \/ response.content \in {"none", "prose", "bad_json"}

\* C24: the quality check never fails the run because of the model call or
\* its output: when the call raises, returns no content, holds no brace span
\* or a span that is not valid JSON, the report says has_issues = false and
\* regeneration_needed = false, and no exception leaves the quality check: the
\* pipeline goes on to its record without a regeneration.
QualityCheckNeverFailsTheRun ==
    /\ [](\A response \in QualityResponses :
             Unreadable(response) =>
                /\ QualityCheck(response).present
                /\ QualityCheck(response).has_issues = "false"
                /\ QualityCheck(response).regeneration_needed = "false")
    /\ [][\A p \in PatternIds :
             (pc[p] = "quality" /\ pc'[p] # "quality") =>
                /\ quality_check'[p] \in
                      {QualityCheck(response) : response \in QualityResponses}
                /\ quality_check'[p].error # "" =>
                      /\ quality_check'[p].has_issues = "false"
                      /\ quality_check'[p].regeneration_needed = "false"
                      /\ pc'[p] = "returned"
                      /\ calls'[p]["regenerate"] = 0
                      /\ VariationKey(p) \in DOMAIN variations'
                      /\ variations'[VariationKey(p)].generated_image
                            .quality_check = quality_check'[p]]_vars

\* a run returned the record of a pipeline whose quality answer was not JSON
ReturnedAfterUnreadableReport ==
    /\ run = "returned"
    /\ \E p \in PatternIds :
          /\ quality_check[p].error = "JSONDecodeError"
          /\ Recorded(p)
          /\ RecordedImage(p).quality_check.regeneration_needed = "false"
          /\ RecordedImage(p).local_path = first_generated[p].local_path

\* C25: when no original screenshot can be located, the image step falls back
\* to text-only generation (a generate call, no edit call) and the pipeline
\* goes on to a Variation record: the missing input is no hard failure.
MissingScreenshotFallsBackToTextOnly ==
    /\ [](~screenshot_exists =>
             \A p \in PatternIds : pc[p] \notin {"image", "regenerate"})
    /\ [][\A p \in PatternIds :
             /\ (/\ ~screenshot_exists
                 /\ pc[p] = "react" /\ pc'[p] \notin {"react", "raised"})
                => pc'[p] = "text_only" /\ calls'[p]["text_only"] = 1
             /\ (pc[p] = "text_only" /\ pc'[p] # "text_only")
                => /\ variation_image'[p].present
                   /\ variation_image'[p].method = "text_only_fallback"
                   /\ pc'[p] \in {"quality", "returned"}
                   /\ pc'[p] = "returned" =>
                         /\ VariationKey(p) \in DOMAIN variations'
                         /\ variations'[VariationKey(p)].generated_image
                               = variation_image'[p]]_vars

\* a run without a screenshot returned a record whose image was generated
\* from the text prompt
ReturnedTextOnlyVariation ==
    /\ ~screenshot_exists
    /\ run = "returned"
    /\ \E p \in PatternIds :
          /\ Recorded(p)
          /\ calls[p]["text_only"] = 1
          /\ RecordedImage(p).method = "text_only_fallback"
          /\ RecordedImage(p).local_path = <<"variation_text", p>>

\* C31: the positioning rules (hero, navigation, call-to-action, content) and
\* the layout instructions of an edit prompt are those of the selected
\* pattern, and the prompts of two different patterns carry different rules.
PromptRulesAreThoseOfThePattern ==
    /\ \A p \in PatternIds :
          image_prompt[p].present => image_prompt[p].positioning = p
    /\ \A p, q \in PatternIds :
          (p # q /\ image_prompt[p].present /\ image_prompt[q].present)
              => image_prompt[p].positioning # image_prompt[q].positioning

\* the issues of a report that are of severity high or medium, up to index i
Serious(issues, i) ==
    {j \in 1..i : issues[j].severity \in {"high", "medium"}}

\* C32: the regeneration prompt is the original edit prompt followed by one
\* fix line for each reported issue of severity high or medium, in the order
\* of the report, and then the fixed quality guidelines; an issue of severity
\* low contributes no fix line.
RegenerationPromptIsOriginalPlusFixes ==
    \A p \in PatternIds :
       enhanced_prompt[p] # <<>> =>
          LET lines == enhanced_prompt[p][1].feedback_instructions
              issues == quality_check[p].issues
          IN /\ enhanced_prompt[p][1].original_prompt = image_prompt[p]
             /\ image_prompt[p].present
             /\ lines[1].kind = "header"
             /\ lines[Len(lines)].kind = "guidelines"
             /\ Len(lines) = Cardinality(Serious(issues, Len(issues))) + 2
             /\ \A i \in Serious(issues, Len(issues)) :
                   lines[Cardinality(Serious(issues, i)) + 1] =
                       [kind |-> "fix", type |-> Upper(issues[i].type),
                        fix |-> issues[i].fix]

RegeneratedWithSeriousAndLowIssues ==
    \E p \in PatternIds :
       /\ pc[p] = "returned"
       /\ improved_image[p].quality_improved
       /\ Len(quality_check[p].issues) = 3
       /\ Len(enhanced_prompt[p][1].feedback_instructions) = 4
       /\ enhanced_prompt[p][1].feedback_instructions[2].type = "ALIGNMENT"
       /\ enhanced_prompt[p][1].feedback_instructions[3].type = "OVERFLOW"

\* C33: when the first image generation fails (an error is recorded or there
\* is no image path), neither the quality check nor the regeneration is
\* invoked, and the Variation is still produced, with the error in its image
\* result and without a quality report.
FailedFirstImageEndsThePipeline ==
    \A p \in PatternIds :
       (first_generated[p].present
          /\ (first_generated[p].error # "" \/ first_generated[p].local_path = NoPath))
       => /\ calls[p]["quality"] = 0
          /\ calls[p]["regenerate"] = 0
          /\ quality_check[p] = NoQualityCheck
          /\ pc[p] = "returned"
          /\ VariationKey(p) \in DOMAIN variations
          /\ variations[VariationKey(p)].generated_image = first_generated[p]
          /\ variations[VariationKey(p)].generated_image.error # ""
          /\ ~variations[VariationKey(p)].generated_image.quality_check.present

ReturnedVariationWithFailedImage ==
    /\ run = "returned"
    /\ ab_test_package.present
    /\ \E p \in PatternIds :
          /\ calls[p]["image"] = 1
          /\ first_generated[p].error = "APIError"
          /\ variations[VariationKey(p)].generated_image.error = "APIError"

-----------------------------------------------------------------------------
(* Properties of the stylizer *)

\* the record is a success: an output path and no error
IsSuccess(record) == record.output_path # NoPath /\ record.error = ""

\* the record is a failure: an error and no output path
IsFailure(record) == record.output_path = NoPath /\ record.error # ""

\* the stylized images recorded for a variation
StylizedImages(key) == stylization_results[key].stylized_images

\* the path of the k-th selected style in the variation being stylized
JobPath(k) == OutputPath(output_dir, CurrentKey, selected_styles[k])

\* C15: applying N styles to the image of one variation yields exactly N
\* outcome records, one per style in catalog order, each either a success
\* (output path, no error) or a failure (error, no output path); the record
\* and the output file of a style are those of its own application, whatever
\* became of the other styles.
StyleOutcomesAreIndependent ==
    /\ \A key \in DOMAIN stylization_results :
          /\ Len(StylizedImages(key)) = Len(selected_styles)
          /\ \A i \in DOMAIN selected_styles :
                /\ StylizedImages(key)[i].style_name = selected_styles[i]
                /\ IsSuccess(StylizedImages(key)[i])
                      # IsFailure(StylizedImages(key)[i])
    /\ \A i \in DOMAIN stylized_results :
          stylized_results[i] = Collect(selected_styles[i], batch_results[i])
    /\ \A k \in DOMAIN job :
          /\ (job[k] = "done" /\ batch_results[k].error = "")
             => (/\ batch_results[k].style_name = selected_styles[k]
                 /\ JobPath(k) \in DOMAIN disk
                 /\ disk[JobPath(k)] \in {"new", "empty"})
          /\ job[k] # "done"
             => (JobPath(k) \in DOMAIN disk => disk[JobPath(k)] = "prior")
    /\ (stylizing = "returned" /\ DOMAIN stylization_results # {})
       => \E key \in DOMAIN stylization_results :
             \A i \in DOMAIN selected_styles :
                StylizedImages(key)[i]
                   = Collect(selected_styles[i], batch_results[i])

\* seven styles were applied, the first, third and fifth failed: four
\* successes and three failures
SevenStylesThreeFailed ==
    /\ stylizing = "returned"
    /\ VariationKey("1") \in DOMAIN stylization_results
    /\ Len(StylizedImages(VariationKey("1"))) = 7
    /\ {i \in 1..7 : IsFailure(StylizedImages(VariationKey("1"))[i])}
          = {1, 3, 5}
    /\ {i \in 1..7 : IsSuccess(StylizedImages(VariationKey("1"))[i])}
          = {2, 4, 6, 7}

\* C16: at most 5 style applications are in flight at any time, and no
\* application of a later batch starts until every application of the
\* batches before it has resolved, by success or by failure.
AtMostFiveInFlight ==
    /\ Cardinality({k \in DOMAIN job : job[k] = "running"}) <= 5
    /\ \A j, k \in DOMAIN job :
          (job[k] # "waiting" /\ (j - 1) \div 5 < (k - 1) \div 5)
          => (job[j] = "done" /\ batch_results[j] # NoOutcome)

\* the second batch is in flight after a first batch of five in which an
\* application failed
SecondBatchAfterFailure ==
    /\ stylizing = "running"
    /\ Len(selected_styles) > 5
    /\ job[6] = "running"
    /\ \A j \in 1..5 : job[j] = "done"
    /\ \E j \in 1..5 : IsFailure(stylized_results[j])

\* distinct presets have distinct output paths within a variation
CatalogPathsDistinct ==
    \A dir \in OutputDirs, i, j \in DOMAIN STYLE_PRESETS :
        i # j => OutputPath(dir, VariationKey("1"), STYLE_PRESETS[i])
                   # OutputPath(dir, VariationKey("1"), STYLE_PRESETS[j])

\* C17: the output path of a style application is a function of the output
\* directory, the variation key and the style name only: distinct styles of
\* the catalog have distinct paths within a variation, every success is
\* recorded and written at the path of its pair, and every file of the
\* output directory sits at the path of one pair, so that a run over a
\* directory holding the artifacts of an earlier run replaces them and adds
\* none.
OutputPathIsPerPair ==
    /\ CatalogPathsDistinct
    /\ \A key \in DOMAIN stylization_results :
          \A i \in DOMAIN StylizedImages(key) :
             IsSuccess(StylizedImages(key)[i])
             => StylizedImages(key)[i].output_path
                   = OutputPath(output_dir, key, selected_styles[i])
    /\ \A k \in DOMAIN job :
          (job[k] = "done" /\ batch_results[k].error = "")
          => (batch_results[k].output_path = JobPath(k)
              /\ disk[JobPath(k)] \in {"new", "empty"})
    /\ \A path \in DOMAIN disk :
          \E p \in PatternIds, i \in DOMAIN Catalog :
             path = OutputPath(output_dir, VariationKey(p), Catalog[i])
    /\ Cardinality(DOMAIN disk) <= Cardinality(PatternIds) * Len(Catalog)

\* a run over the artifacts of an earlier run returned: a file was replaced,
\* one of a failed style is the earlier one, and no file was added
ReplacedPriorArtifact ==
    /\ stylizing = "returned"
    /\ \E path \in DOMAIN disk : disk[path] = "new"
    /\ \E path \in DOMAIN disk : disk[path] = "prior"
    /\ DOMAIN disk = DOMAIN PriorArtifacts(output_dir, VariationKey("1"))

\* C36: stylize_all_variations returns an entry for every variation of the
\* package it was given, a variation without a usable image included: none
\* is left out of the results.
EveryVariationHasAnEntry ==
    stylizing = "returned"
    => \A i \in DOMAIN styled_package :
          styled_package[i].key \in DOMAIN stylization_results

\* C37: a style application whose download gave an empty payload is recorded
\* as a failure of that style: the file of every record counted as a success
\* holds an image, never an empty payload.
EmptyDownloadIsAFailure ==
    \A key \in DOMAIN stylization_results :
       \A i \in DOMAIN StylizedImages(key) :
          IsSuccess(StylizedImages(key)[i])
          => disk[StylizedImages(key)[i].output_path] # "empty"

\* C38: a style application that fails leaves every output file as it was:
\* a step of the run that writes no file (the application did not succeed)
\* changes nothing on the disk, neither the file of another style nor the
\* artifact an earlier run left for the same variation and style.
FailedStyleLeavesFilesUnchanged ==
    [][(/\ stylizing = "running"
        /\ \A path \in DOMAIN disk' :
              path \in DOMAIN disk /\ disk'[path] = disk[path])
       => disk' = disk]_vars

-----------------------------------------------------------------------------
(* Properties of the size-selection rule *)

\* C18: for every original screenshot with width > height, the size-selection
\* rule returns the landscape option 1536x1024, never the square or the
\* portrait option, whatever the magnitude of the aspect ratio.
WiderThanTallGetsLandscape ==
    (optimal_size # "" /\ original_size[1] > original_size[2])
    => optimal_size = "1536x1024"

\* the rule was applied to a screenshot only slightly wider than tall, whose
\* aspect ratio is nearer to square than to landscape
SizedNearlySquareDesktop ==
    /\ optimal_size = "1536x1024"
    /\ original_size[1] = original_size[2] + 1
    /\ original_size[2] >= 10

\* C34: the regeneration requests the same target size as the first
\* generation of the variation, the size the size-selection rule chose from
\* the dimensions of the original screenshot.
RegenerationKeepsTheSize ==
    regeneration_size # "" =>
        /\ regeneration_size = optimal_size
        /\ regeneration_size =
              GetOptimalGenerationSize(original_size[1], original_size[2])

\* abs(aspect_ratio - 0.667), in thousandths of the height h
FromPortrait(w, h) ==
    IF 1000 * w >= 667 * h THEN 1000 * w - 667 * h ELSE 667 * h - 1000 * w

\* C35 (as amended): for a screenshot with width <= height the rule never
\* returns the landscape option; it returns the square option when the
\* aspect ratio is at least as near to 1.0 as to 0.667, a tie included, and
\* the portrait option otherwise.
TallerGetsSquareOrPortrait ==
    (optimal_size # "" /\ original_size[1] <= original_size[2]) =>
        optimal_size =
            IF 1000 * (original_size[2] - original_size[1])
                  <= FromPortrait(original_size[1], original_size[2])
            THEN "1024x1024" ELSE "1024x1536"

SizedPageMidwayToSquare ==
    /\ original_size = TallPage
    /\ optimal_size = "1024x1024"

\* C35 as stated: the square option only when the aspect ratio is nearer to
\* 1.0 than to 0.667, and the portrait option otherwise.
TallerGetsSquareOnlyWhenNearer ==
    (optimal_size # "" /\ original_size[1] <= original_size[2]) =>
        optimal_size =
            IF 1000 * (original_size[2] - original_size[1])
                  < FromPortrait(original_size[1], original_size[2])
            THEN "1024x1024" ELSE "1024x1536"

-----------------------------------------------------------------------------
(* Properties of the programs *)

\* C21: with the OpenAI credential missing, the construction of the analysis
\* engine and the start of the command line fail with a configuration error
\* before any screenshot capture or model call is issued: no engine is
\* constructed, the program has ended with the error, nothing was captured
\* and no analysis was entered.
MissingCredentialFailsFast ==
    (main_pc # "shell" /\ OPENAI_API_KEY = "") =>
        /\ analyzer # "constructed"
        /\ main_pc = (IF program = "main.py" THEN "return 1" ELSE "ValueError")
        /\ captures = 0
        /\ stage = "idle"
        /\ ret = NoRet
        /\ merge_calls = <<>>

ConstructorRejectedMissingCredential ==
    /\ program = "api.py"
    /\ OPENAI_API_KEY = ""
    /\ analyzer = "ValueError"
    /\ main_pc = "ValueError"

\* C23: with multi-stage analysis disabled (multi_stage = false, the flag
\* --no-multi-stage) the website analysis runs in single-stage mode: one
\* model call for the image, and no focused, synthesis or validation call.
DisabledMultiStageRunsSingleStage ==
    (main_pc \in {"desktop", "mobile"} /\ ~multi_stage) =>
        stage \notin {"multi", "synthesis", "validation"}

-----------------------------------------------------------------------------
(* Properties of the component segmenter *)

\* the ids of the captured segments whose model call ended as api
SegmentsWhoseCall(api) ==
    {scroll_segments[i].segment_id :
        i \in {j \in DOMAIN segment_task :
                  IF api = "error" THEN segment_task[j].caught # ""
                  ELSE /\ segment_task[j].kind = "returned"
                       /\ segment_task[j].caught = ""}}

-----------------------------------------------------------------------------
(* Properties of the analysis records *)

\* C40: an analysis record starts in status processing and changes exactly
\* once, to completed with results and no error or to failed with an error
\* and no results; after that it never changes; the download route gives the
\* results of a record only while its status is completed.
RecordSettlesOnce ==
    /\ [](\A id \in DOMAIN analysis_storage :
             /\ analysis_storage[id].status = "processing"
                => (/\ analysis_storage[id].results = <<>>
                    /\ analysis_storage[id].error = <<>>)
             /\ analysis_storage[id].status = "completed"
                => (/\ analysis_storage[id].results # <<>>
                    /\ analysis_storage[id].error = <<>>)
             /\ analysis_storage[id].status = "failed"
                => (/\ analysis_storage[id].results = <<>>
                    /\ analysis_storage[id].error # <<>>))
    /\ [][\A id \in DOMAIN analysis_storage :
             /\ id \in DOMAIN analysis_storage'
             /\ analysis_storage[id].status # "processing"
                => analysis_storage'[id] = analysis_storage[id]]_vars
    /\ [][\A id \in DOMAIN analysis_storage' :
             id \notin DOMAIN analysis_storage
             => analysis_storage'[id].status = "processing"]_vars
    /\ [][(download' # download /\ download'.status_code = 200)
          => analysis_storage[download'.analysis_id].status = "completed"]_vars

====
